---- MODULE Spec2Model ----
(***************************************************************************)
(* Scheduling core of peeplilab/scheduler: the localStorage-backed         *)
(* appointment store (api/localSchedulerApi), the scheduling rules         *)
(* (domain/schedulerRules), the interval utilities (utils/schedule),       *)
(* the seed data (mockData) and the polling hook of the user interface     *)
(* (hooks/useSchedulerPolling).                                            *)
(*                                                                         *)
(* Representation.  An ISO date-time string is a record [z, t]: z is TRUE  *)
(* for a string with the UTC designator (Date.toISOString) and FALSE for a *)
(* string without one (mockData's toISO), which the JavaScript Date parses *)
(* as local wall-clock time; t counts the minutes the string spells since  *)
(* 2025-01-12T00:00 (a Sunday).  A Date is the number of UTC minutes since *)
(* 2025-01-12T00:00Z.  A calendar date 'YYYY-MM-DD' is its day number      *)
(* counted from 2025-01-12, so day d has weekday d % 7 with 0 = Sunday.    *)
(***************************************************************************)
EXTENDS Integers, Sequences, FiniteSets, TLC

VARIABLES
    storage,    \* localStorage[STORAGE_KEY]: <<>> (no item) or <<blob>>
    clock,      \* the clock read by nowIso(), in minutes
    last,       \* the API call whose promise is being settled: who, what,
                \* its outcome, the state it loaded
    inflight,   \* per session: the command whose load has run while its save
                \* has not (two tabs share localStorage, not a thread)
    polling     \* the useSchedulerPolling hook of one mounted component: its
                \* React state, mountedRef, and the fetches it is awaiting

vars == <<storage, clock, last, inflight, polling>>

----------------------------------------------------------------------------
(* Bounds of the model *)

\* commands are explored while the loaded store version is below this
MaxVersion == 4
\* appointments a behaviour may create on top of the seed
MaxCreated == 2
\* the longest list detectConflicts is applied to on its own
MaxListed == 3

\* fetches the polling hook issues
MaxTicks == 2
\* the minute counts and the slot sizes snapMinutes is applied to
MaxMinutes == 40
MaxSlot == 9

----------------------------------------------------------------------------
(* Time: utils/schedule and the JavaScript Date *)

MinutesPerDay == 24 * 60

\* the host's offset from UTC, in minutes (local = UTC + TzOffset)
TzOffset == 60

HHmm(h, m) == h * 60 + m

NoIso == [z |-> FALSE, t |-> 0 - 1000000]

\* mockData: toISO(date, time) = `${date}T${time}:00`, a local-time string
toISO(day, hhmm) == [z |-> FALSE, t |-> day * MinutesPerDay + hhmm]

\* utils/schedule: parseISO(value) = new Date(value)
parseISO(value) == IF value.z THEN value.t ELSE value.t - TzOffset

\* Date.prototype.toISOString
toISOString(date) == [z |-> TRUE, t |-> date]

\* JavaScript truthiness of an optional string field
Truthy(value) == value # NoIso

\* Date: the local wall-clock minute count, getDay(), getHours()*60+getMinutes()
LocalMinutes(date) == date + TzOffset
getDay(date) == (LocalMinutes(date) \div MinutesPerDay) % 7
minutesSinceMidnight(date) == LocalMinutes(date) % MinutesPerDay
\* date.toISOString().split('T')[0]: the UTC calendar date
formatDateInput(date) == date \div MinutesPerDay

\* a variant with closed intervals
overlaps_Closed(startA, endA, startB, endB) == startA <= endB /\ endA >= startB

overlaps(startA, endA, startB, endB) == startA < endB /\ endA > startB

\* Math.floor, Math.ceil and Math.round of n / d for integers n >= 0, d > 0
\* (Math.round takes an exact half up)
MathFloor(n, d) == n \div d
MathCeil(n, d) == (n + d - 1) \div d
MathRound(n, d) == (2 * n + d) \div (2 * d)

\* a variant whose 'round' takes an exact half down
snapMinutes_HalfDown(minutesFromMidnightValue, slotMinutes, mode) ==
    LET snapped ==
            IF mode = "floor" THEN MathFloor(minutesFromMidnightValue, slotMinutes)
            ELSE IF mode = "ceil" THEN MathCeil(minutesFromMidnightValue, slotMinutes)
            ELSE (2 * minutesFromMidnightValue + slotMinutes - 1) \div (2 * slotMinutes)
    IN snapped * slotMinutes

snapMinutes(minutesFromMidnightValue, slotMinutes, mode) ==
    LET snapped ==
            IF mode = "floor" THEN MathFloor(minutesFromMidnightValue, slotMinutes)
            ELSE IF mode = "ceil" THEN MathCeil(minutesFromMidnightValue, slotMinutes)
            ELSE MathRound(minutesFromMidnightValue, slotMinutes)
    IN snapped * slotMinutes

\* addMinutes and minutesDiff, on Dates of whole minutes
addMinutes(date, minutes) == date + minutes
minutesDiff(start, end) == end - start

\* utils/scheduling: snapDateToSlot sets the local hours and minutes of the
\* date to the snapped minute count (1440 rolls to the next day)
snapDateToSlot(date, slotMinutes, mode) ==
    LET mins == minutesSinceMidnight(date)
        snapped == snapMinutes(mins, slotMinutes, mode)
    IN date - mins + snapped

withinDateRange(iso, start, end) ==
    LET date == parseISO(iso)
        startDate == parseISO(toISO(start, HHmm(0, 0)))
        \* `${end}T23:59:59`: seconds are below the model's resolution of a
        \* minute, and every time of the model is a whole minute
        endDate == parseISO(toISO(end, HHmm(23, 59)))
    IN date >= startDate /\ date <= endDate

----------------------------------------------------------------------------
(* Reference data: mockData *)


seededBy == "seed"
seededUpdatedAt == toISO(0 - 11, HHmm(0, 0))
seedStatus == "scheduled"
seedMode == "in-clinic"

WeekDays == {1, 2, 3, 4, 5}

therapists == <<
    [id |-> "t1", role |-> "PT", clinicId |-> "c1",
     workingHours |-> [start |-> HHmm(8, 0), end |-> HHmm(16, 0), days |-> WeekDays]],
    [id |-> "t2", role |-> "PT", clinicId |-> "c2",
     workingHours |-> [start |-> HHmm(9, 0), end |-> HHmm(17, 0), days |-> WeekDays]],
    [id |-> "t3", role |-> "OT", clinicId |-> "c3",
     workingHours |-> [start |-> HHmm(10, 0), end |-> HHmm(18, 0), days |-> WeekDays]],
    [id |-> "t4", role |-> "Speech", clinicId |-> "c1",
     workingHours |-> [start |-> HHmm(8, 0), end |-> HHmm(15, 0), days |-> WeekDays]],
    [id |-> "t5", role |-> "PT", clinicId |-> "c3",
     workingHours |-> [start |-> HHmm(7, 0), end |-> HHmm(12, 0), days |-> WeekDays]] >>

timeAway == <<
    [id |-> "away1", therapistId |-> "t2", date |-> 4,
     start |-> HHmm(13, 0), end |-> HHmm(14, 30), reason |-> "Training"],
    [id |-> "away2", therapistId |-> "t3", date |-> 2,
     start |-> HHmm(10, 0), end |-> HHmm(12, 0), reason |-> "Outreach"],
    [id |-> "away3", therapistId |-> "t4", date |-> 5,
     start |-> HHmm(9, 0), end |-> HHmm(11, 0), reason |-> "Time off"] >>

\* an audit event's absent `from` / `to`, and absent members of one
NoStatus == ""
NoDelta == [start |-> NoIso, end |-> NoIso, status |-> NoStatus]
NoNote == ""

AuditEvent(at, by, type, from, to, note) ==
    [at |-> at, by |-> by, type |-> type, from |-> from, to |-> to, note |-> note]

SeedAppointment(id, clinicId, therapistId, patient, day, startMin, endMin, type) ==
    [id |-> id, clinicId |-> clinicId, therapistId |-> therapistId, patient |-> patient,
     start |-> toISO(day, startMin), end |-> toISO(day, endMin), type |-> type,
     mode |-> seedMode, status |-> seedStatus,
     createdBy |-> seededBy, updatedAt |-> seededUpdatedAt,
     cancelledAt |-> NoIso, cancelledBy |-> "",
     audit |-> << AuditEvent(seededUpdatedAt, seededBy, "created", NoDelta,
                             [start |-> toISO(day, startMin), end |-> toISO(day, endMin),
                              status |-> seedStatus], NoNote) >>]

seedAppointments == <<
    SeedAppointment("a1", "c1", "t1", "D. Carter", 1, HHmm(9, 0), HHmm(10, 0), "evaluation"),
    SeedAppointment("a2", "c1", "t1", "R. Patel", 1, HHmm(9, 30), HHmm(10, 30), "followup"),
    SeedAppointment("a3", "c2", "t2", "M. Young", 2, HHmm(11, 0), HHmm(12, 0), "evaluation"),
    SeedAppointment("a4", "c3", "t3", "S. Hill", 3, HHmm(14, 0), HHmm(15, 30), "followup"),
    SeedAppointment("a5", "c1", "t4", "A. Kim", 3, HHmm(10, 0), HHmm(11, 0), "evaluation"),
    SeedAppointment("a6", "c2", "t2", "L. Brooks", 4, HHmm(15, 0), HHmm(16, 30), "followup"),
    SeedAppointment("a7", "c1", "t5", "C. Nguyen", 4, HHmm(9, 30), HHmm(10, 0), "followup") >>

----------------------------------------------------------------------------
(* Sessions and inputs *)

\* getOrCreateClientId: `client_${randomId()}`, one per browser session
Sessions == {"client_A", "client_B"}

Statuses == {"scheduled", "check-in", "in-progress", "completed", "incomplete"}

\* the statuses callers pass to updateAppointmentStatus
StatusInputs == {"scheduled", "completed"}

\* the resource ids callers pass to createAppointment and reassignAppointment
TherapistInputs == {"t1", "t2"}

\* a local wall-clock time of day `day`, as the Date the UI builds
LocalDate(day, hhmm) == parseISO(toISO(day, hhmm))

Window(day, startMin, endMin) ==
    [start |-> toISOString(LocalDate(day, startMin)),
     end |-> toISOString(LocalDate(day, endMin))]

\* the windows callers pass to createAppointment: Monday 2025-01-13
\* 09:30-10:30 (overlaps seeds a1 and a2 on t1), 10:30-11:30 (starts where
\* a2 ends); to rescheduleAppointment and the validator also 11:00-12:00
CreateWindows == { Window(1, HHmm(9, 30), HHmm(10, 30)),
                   Window(1, HHmm(10, 30), HHmm(11, 30)) }
Windows == CreateWindows \cup { Window(1, HHmm(11, 0), HHmm(12, 0)) }

\* the date ranges callers pass to fetchSnapshot: the week, and Tuesday-Thursday
Week == [start |-> 0, end |-> 6]
Ranges == { Week, [start |-> 2, end |-> 4] }

----------------------------------------------------------------------------
(* api/localSchedulerApi: storage *)

ClockStart == 400 * MinutesPerDay

nowIso == toISOString(clock)

SeqToSet(seq) == { seq[i] : i \in 1..Len(seq) }

\* the ids randomId() hands out: fresh, and never equal across sessions
CreatedBy(appointments, clientId) ==
    Cardinality({ i \in 1..Len(appointments) : appointments[i].createdBy = clientId })
randomId(appointments, clientId) ==
    "id_" \o clientId \o "_" \o ToString(CreatedBy(appointments, clientId) + 1)
NewIds == { "id_" \o s \o "_" \o ToString(k) : s \in Sessions, k \in 1..MaxCreated }

\* the ids callers pass to the commands on an existing appointment: a seeded
\* one and the first one each session creates (not found until it does)
TargetIds == {"a1"} \cup { "id_" \o s \o "_" \o ToString(1) : s \in Sessions }

\* JSON.stringify / JSON.parse of a StoredSchedulerState; a blob that does
\* not parse has parses = FALSE
JSONstringify(state) == [parses |-> TRUE, value |-> state]

initialState(at) == [version |-> 1, updatedAt |-> at, appointments |-> seedAppointments]

\* readState: the state it returns, and what it leaves in localStorage
readState(raw, at) ==
    IF raw = <<>> THEN initialState(at)
    ELSE IF raw[1].parses THEN raw[1].value
    ELSE initialState(at)

storageAfterRead(raw, at) ==
    IF raw = <<>> THEN << JSONstringify(initialState(at)) >>
    ELSE IF raw[1].parses THEN raw
    ELSE << JSONstringify(initialState(at)) >>

\* a variant that saves only over the version the command had loaded
writeState_IfUnchanged(next) ==
    IF storage # <<>> /\ storage[1].value.version # next.version - 1 THEN storage
    ELSE << JSONstringify(next) >>

writeState(next) == << JSONstringify(next) >>

\* the outcome of a command: the message of the Error thrown ("" when it
\* returns), and the state handed to writeState (<<>> when it is not called)
NoError == ""
Return(next) == [err |-> NoError, written |-> << next >>]
Throw(message) == [err |-> message, written |-> <<>>]

ErrNotFound == "Appointment not found"
ErrLocked == "Appointment is locked by another user"
ErrCancelled == "Appointment is cancelled"
ErrOverlap == "Overlapping booking for this resource"

\* a variant that also locks cancelled appointments
buildLocks_KeepsCancelled(appointments, clientId) ==
    LET keep == SelectSeq(appointments, LAMBDA a : a.createdBy # clientId)
    IN [i \in 1..Len(keep) |->
          [id |-> "lock_" \o keep[i].id, therapistId |-> keep[i].therapistId,
           start |-> keep[i].start, end |-> keep[i].end,
           lockedBy |-> keep[i].createdBy, reason |-> "booked"]]

buildLocks(appointments, clientId) ==
    LET keep == SelectSeq(appointments,
                          LAMBDA a : ~Truthy(a.cancelledAt) /\ a.createdBy # clientId)
    IN [i \in 1..Len(keep) |->
          [id |-> "lock_" \o keep[i].id, therapistId |-> keep[i].therapistId,
           start |-> keep[i].start, end |-> keep[i].end,
           lockedBy |-> keep[i].createdBy, reason |-> "booked"]]

\* Array.prototype.find as an index: the first match, 0 when there is none
FindIndex(appointments, id) ==
    LET hits == { i \in 1..Len(appointments) : appointments[i].id = id }
    IN IF hits = {} THEN 0 ELSE CHOOSE i \in hits : \A j \in hits : i <= j

findAppointmentOrThrow(appointments, id) ==
    IF FindIndex(appointments, id) = 0 THEN ErrNotFound ELSE NoError

\* a variant that forgets the ownership test
assertOwnedOrThrow_NoOwnerTest(appt, clientId) ==
    IF Truthy(appt.cancelledAt) THEN ErrCancelled ELSE NoError

\* a variant that forgets the cancelled test
assertOwnedOrThrow_NoCancelledTest(appt, clientId) ==
    IF appt.createdBy # clientId THEN ErrLocked ELSE NoError

\* a variant that tests the cancellation before the ownership
assertOwnedOrThrow_CancelledFirst(appt, clientId) ==
    IF Truthy(appt.cancelledAt) THEN ErrCancelled
    ELSE IF appt.createdBy # clientId THEN ErrLocked
    ELSE NoError

assertOwnedOrThrow(appt, clientId) ==
    IF appt.createdBy # clientId THEN ErrLocked
    ELSE IF Truthy(appt.cancelledAt) THEN ErrCancelled
    ELSE NoError

\* a variant that only notices a candidate starting inside another booking
assertNoOverlapOrThrow_StartInside(appointments, candidate) ==
    LET start == parseISO(candidate.start)
        hasOverlap ==
            \E i \in 1..Len(appointments) :
                LET a == appointments[i] IN
                /\ ~Truthy(a.cancelledAt)
                /\ a.id # candidate.id
                /\ a.therapistId = candidate.therapistId
                /\ parseISO(a.start) <= start
                /\ start < parseISO(a.end)
    IN IF hasOverlap THEN ErrOverlap ELSE NoError

\* a variant that lets cancelled appointments keep their slot
assertNoOverlapOrThrow_CountsCancelled(appointments, candidate) ==
    LET start == parseISO(candidate.start)
        end == parseISO(candidate.end)
        hasOverlap ==
            \E i \in 1..Len(appointments) :
                LET a == appointments[i] IN
                /\ a.id # candidate.id
                /\ a.therapistId = candidate.therapistId
                /\ overlaps(start, end, parseISO(a.start), parseISO(a.end))
    IN IF hasOverlap THEN ErrOverlap ELSE NoError

\* a variant that compares the candidate with its own stored record too
assertNoOverlapOrThrow_NoSelfTest(appointments, candidate) ==
    LET start == parseISO(candidate.start)
        end == parseISO(candidate.end)
        hasOverlap ==
            \E i \in 1..Len(appointments) :
                LET a == appointments[i] IN
                /\ ~Truthy(a.cancelledAt)
                /\ a.therapistId = candidate.therapistId
                /\ overlaps(start, end, parseISO(a.start), parseISO(a.end))
    IN IF hasOverlap THEN ErrOverlap ELSE NoError

assertNoOverlapOrThrow(appointments, candidate) ==
    LET start == parseISO(candidate.start)
        end == parseISO(candidate.end)
        hasOverlap ==
            \E i \in 1..Len(appointments) :
                LET a == appointments[i] IN
                /\ ~Truthy(a.cancelledAt)
                /\ a.id # candidate.id
                /\ a.therapistId = candidate.therapistId
                /\ overlaps(start, end, parseISO(a.start), parseISO(a.end))
    IN IF hasOverlap THEN ErrOverlap ELSE NoError

\* a variant that saves the changed appointment alone
ReplaceById_DropsOthers(appointments, id, nextAppt) ==
    [i \in 1..Len(SelectSeq(appointments, LAMBDA a : a.id = id)) |-> nextAppt]

\* state.appointments.map((a) => (a.id === id ? nextAppt : a))
ReplaceById(appointments, id, nextAppt) ==
    [i \in 1..Len(appointments) |->
        IF appointments[i].id = id THEN nextAppt ELSE appointments[i]]

----------------------------------------------------------------------------
(* api/localSchedulerApi: the commands, as functions of the state loaded *)

\* a variant that appends the candidate without the overlap check
createAppointment_Unchecked(state, clientId, input, at) ==
    Return([version |-> state.version + 1, updatedAt |-> at,
            appointments |-> Append(state.appointments,
                [id |-> randomId(state.appointments, clientId),
                 clinicId |-> input.clinicId, therapistId |-> input.therapistId,
                 patient |-> input.patient, start |-> input.start, end |-> input.end,
                 type |-> input.type, mode |-> input.mode, status |-> "scheduled",
                 createdBy |-> clientId, updatedAt |-> at,
                 cancelledAt |-> NoIso, cancelledBy |-> "",
                 audit |-> << AuditEvent(at, clientId, "created", NoDelta,
                                         [start |-> input.start, end |-> input.end,
                                          status |-> "scheduled"], NoNote) >>])])

\* a variant that records a creation without the requested values
createAppointment_BareTrail(state, clientId, input, at) ==
    LET appt == [id |-> randomId(state.appointments, clientId),
                 clinicId |-> input.clinicId, therapistId |-> input.therapistId,
                 patient |-> input.patient, start |-> input.start, end |-> input.end,
                 type |-> input.type, mode |-> input.mode, status |-> "scheduled",
                 createdBy |-> clientId, updatedAt |-> at,
                 cancelledAt |-> NoIso, cancelledBy |-> "",
                 audit |-> << AuditEvent(at, clientId, "created", NoDelta, NoDelta,
                                         NoNote) >>]
        overlap == assertNoOverlapOrThrow(state.appointments, appt)
    IN IF overlap # NoError THEN Throw(overlap)
       ELSE Return([version |-> state.version + 1, updatedAt |-> at,
                    appointments |-> Append(state.appointments, appt)])

createAppointment(state, clientId, input, at) ==
    LET appt == [id |-> randomId(state.appointments, clientId),
                 clinicId |-> input.clinicId, therapistId |-> input.therapistId,
                 patient |-> input.patient, start |-> input.start, end |-> input.end,
                 type |-> input.type, mode |-> input.mode, status |-> "scheduled",
                 createdBy |-> clientId, updatedAt |-> at,
                 cancelledAt |-> NoIso, cancelledBy |-> "",
                 audit |-> << AuditEvent(at, clientId, "created", NoDelta,
                                         [start |-> input.start, end |-> input.end,
                                          status |-> "scheduled"], NoNote) >>]
        overlap == assertNoOverlapOrThrow(state.appointments, appt)
    IN IF overlap # NoError THEN Throw(overlap)
       ELSE Return([version |-> state.version + 1, updatedAt |-> at,
                    appointments |-> Append(state.appointments, appt)])

\* a variant that puts the moved appointment back to 'scheduled'
rescheduleAppointment_ResetsStatus(state, clientId, id, start, end, at) ==
    IF findAppointmentOrThrow(state.appointments, id) # NoError
    THEN Throw(findAppointmentOrThrow(state.appointments, id))
    ELSE
    LET current == state.appointments[FindIndex(state.appointments, id)]
        owned == assertOwnedOrThrow(current, clientId)
        nextAppt == [current EXCEPT
                        !.start = start, !.end = end, !.updatedAt = at,
                        !.status = "scheduled",
                        !.audit = Append(current.audit,
                            AuditEvent(at, clientId, "rescheduled",
                                [start |-> current.start, end |-> current.end,
                                 status |-> NoStatus],
                                [start |-> start, end |-> end, status |-> NoStatus],
                                NoNote))]
        overlap == assertNoOverlapOrThrow(state.appointments, nextAppt)
    IN IF owned # NoError THEN Throw(owned)
       ELSE IF overlap # NoError THEN Throw(overlap)
       ELSE Return([version |-> state.version + 1, updatedAt |-> at,
                    appointments |-> ReplaceById(state.appointments, id, nextAppt)])

\* a variant that saves the candidate before it checks for overlap
rescheduleAppointment_SavesFirst(state, clientId, id, start, end, at) ==
    IF findAppointmentOrThrow(state.appointments, id) # NoError
    THEN Throw(findAppointmentOrThrow(state.appointments, id))
    ELSE
    LET current == state.appointments[FindIndex(state.appointments, id)]
        owned == assertOwnedOrThrow(current, clientId)
        nextAppt == [current EXCEPT
                        !.start = start, !.end = end, !.updatedAt = at,
                        !.audit = Append(current.audit,
                            AuditEvent(at, clientId, "rescheduled",
                                [start |-> current.start, end |-> current.end,
                                 status |-> NoStatus],
                                [start |-> start, end |-> end, status |-> NoStatus],
                                NoNote))]
        overlap == assertNoOverlapOrThrow(state.appointments, nextAppt)
        next == [version |-> state.version + 1, updatedAt |-> at,
                 appointments |-> ReplaceById(state.appointments, id, nextAppt)]
    IN IF owned # NoError THEN Throw(owned)
       ELSE IF overlap # NoError THEN [err |-> overlap, written |-> << next >>]
       ELSE Return(next)

rescheduleAppointment(state, clientId, id, start, end, at) ==
    IF findAppointmentOrThrow(state.appointments, id) # NoError
    THEN Throw(findAppointmentOrThrow(state.appointments, id))
    ELSE
    LET current == state.appointments[FindIndex(state.appointments, id)]
        owned == assertOwnedOrThrow(current, clientId)
        nextAppt == [current EXCEPT
                        !.start = start, !.end = end, !.updatedAt = at,
                        !.audit = Append(current.audit,
                            AuditEvent(at, clientId, "rescheduled",
                                [start |-> current.start, end |-> current.end,
                                 status |-> NoStatus],
                                [start |-> start, end |-> end, status |-> NoStatus],
                                NoNote))]
        overlap == assertNoOverlapOrThrow(state.appointments, nextAppt)
    IN IF owned # NoError THEN Throw(owned)
       ELSE IF overlap # NoError THEN Throw(overlap)
       ELSE Return([version |-> state.version + 1, updatedAt |-> at,
                    appointments |-> ReplaceById(state.appointments, id, nextAppt)])

\* a variant that tests the overlap on the resource the appointment leaves
reassignAppointment_ChecksOldResource(state, clientId, id, therapistId, at) ==
    IF findAppointmentOrThrow(state.appointments, id) # NoError
    THEN Throw(findAppointmentOrThrow(state.appointments, id))
    ELSE
    LET current == state.appointments[FindIndex(state.appointments, id)]
        owned == assertOwnedOrThrow(current, clientId)
        nextAppt == [current EXCEPT
                        !.therapistId = therapistId, !.updatedAt = at,
                        !.audit = Append(current.audit,
                            AuditEvent(at, clientId, "rescheduled", NoDelta, NoDelta,
                                "reassigned:" \o current.therapistId \o "->" \o therapistId))]
        overlap == assertNoOverlapOrThrow(state.appointments, current)
    IN IF owned # NoError THEN Throw(owned)
       ELSE IF overlap # NoError THEN Throw(overlap)
       ELSE Return([version |-> state.version + 1, updatedAt |-> at,
                    appointments |-> ReplaceById(state.appointments, id, nextAppt)])

reassignAppointment(state, clientId, id, therapistId, at) ==
    IF findAppointmentOrThrow(state.appointments, id) # NoError
    THEN Throw(findAppointmentOrThrow(state.appointments, id))
    ELSE
    LET current == state.appointments[FindIndex(state.appointments, id)]
        owned == assertOwnedOrThrow(current, clientId)
        nextAppt == [current EXCEPT
                        !.therapistId = therapistId, !.updatedAt = at,
                        !.audit = Append(current.audit,
                            AuditEvent(at, clientId, "rescheduled", NoDelta, NoDelta,
                                "reassigned:" \o current.therapistId \o "->" \o therapistId))]
        overlap == assertNoOverlapOrThrow(state.appointments, nextAppt)
    IN IF owned # NoError THEN Throw(owned)
       ELSE IF overlap # NoError THEN Throw(overlap)
       ELSE Return([version |-> state.version + 1, updatedAt |-> at,
                    appointments |-> ReplaceById(state.appointments, id, nextAppt)])

\* a variant that saves the loaded version unchanged
updateAppointmentStatus_KeepsVersion(state, clientId, id, status, at) ==
    IF findAppointmentOrThrow(state.appointments, id) # NoError
    THEN Throw(findAppointmentOrThrow(state.appointments, id))
    ELSE
    LET current == state.appointments[FindIndex(state.appointments, id)]
        owned == assertOwnedOrThrow(current, clientId)
        event == AuditEvent(at, clientId, "status-change",
                     [start |-> NoIso, end |-> NoIso, status |-> current.status],
                     [start |-> NoIso, end |-> NoIso, status |-> status], NoNote)
        nextAppt == [current EXCEPT
                        !.status = status, !.updatedAt = at,
                        !.audit = Append(current.audit, event)]
    IN IF owned # NoError THEN Throw(owned)
       ELSE Return([version |-> state.version, updatedAt |-> at,
                    appointments |-> ReplaceById(state.appointments, id, nextAppt)])

\* a variant that re-checks the overlap like a reschedule
updateAppointmentStatus_ChecksOverlap(state, clientId, id, status, at) ==
    IF findAppointmentOrThrow(state.appointments, id) # NoError
    THEN Throw(findAppointmentOrThrow(state.appointments, id))
    ELSE
    LET current == state.appointments[FindIndex(state.appointments, id)]
        owned == assertOwnedOrThrow(current, clientId)
        event == AuditEvent(at, clientId, "status-change",
                     [start |-> NoIso, end |-> NoIso, status |-> current.status],
                     [start |-> NoIso, end |-> NoIso, status |-> status], NoNote)
        nextAppt == [current EXCEPT
                        !.status = status, !.updatedAt = at,
                        !.audit = Append(current.audit, event)]
        overlap == assertNoOverlapOrThrow(state.appointments, nextAppt)
    IN IF owned # NoError THEN Throw(owned)
       ELSE IF overlap # NoError THEN Throw(overlap)
       ELSE Return([version |-> state.version + 1, updatedAt |-> at,
                    appointments |-> ReplaceById(state.appointments, id, nextAppt)])

updateAppointmentStatus(state, clientId, id, status, at) ==
    IF findAppointmentOrThrow(state.appointments, id) # NoError
    THEN Throw(findAppointmentOrThrow(state.appointments, id))
    ELSE
    LET current == state.appointments[FindIndex(state.appointments, id)]
        owned == assertOwnedOrThrow(current, clientId)
        event == AuditEvent(at, clientId, "status-change",
                     [start |-> NoIso, end |-> NoIso, status |-> current.status],
                     [start |-> NoIso, end |-> NoIso, status |-> status], NoNote)
        nextAppt == [current EXCEPT
                        !.status = status, !.updatedAt = at,
                        !.audit = Append(current.audit, event)]
    IN IF owned # NoError THEN Throw(owned)
       ELSE Return([version |-> state.version + 1, updatedAt |-> at,
                    appointments |-> ReplaceById(state.appointments, id, nextAppt)])

\* a variant that writes the new audit entry over the trail
cancelAppointment_ReplacesTrail(state, clientId, id, at) ==
    IF findAppointmentOrThrow(state.appointments, id) # NoError
    THEN Throw(findAppointmentOrThrow(state.appointments, id))
    ELSE
    LET current == state.appointments[FindIndex(state.appointments, id)]
        owned == assertOwnedOrThrow(current, clientId)
        nextAppt == [current EXCEPT
                        !.cancelledAt = at, !.cancelledBy = clientId, !.updatedAt = at,
                        !.audit = << AuditEvent(at, clientId, "cancelled", NoDelta, NoDelta,
                                                NoNote) >>]
    IN IF owned # NoError THEN Throw(owned)
       ELSE Return([version |-> state.version + 1, updatedAt |-> at,
                    appointments |-> ReplaceById(state.appointments, id, nextAppt)])

cancelAppointment(state, clientId, id, at) ==
    IF findAppointmentOrThrow(state.appointments, id) # NoError
    THEN Throw(findAppointmentOrThrow(state.appointments, id))
    ELSE
    LET current == state.appointments[FindIndex(state.appointments, id)]
        owned == assertOwnedOrThrow(current, clientId)
        nextAppt == [current EXCEPT
                        !.cancelledAt = at, !.cancelledBy = clientId, !.updatedAt = at,
                        !.audit = Append(current.audit,
                            AuditEvent(at, clientId, "cancelled", NoDelta, NoDelta, NoNote))]
    IN IF owned # NoError THEN Throw(owned)
       ELSE Return([version |-> state.version + 1, updatedAt |-> at,
                    appointments |-> ReplaceById(state.appointments, id, nextAppt)])

fetchSnapshot(state, clientId, rangeStart, rangeEnd, at) ==
    LET inRange == SelectSeq(state.appointments,
                             LAMBDA a : withinDateRange(a.start, rangeStart, rangeEnd))
    IN [appointments |-> inRange, locks |-> buildLocks(inRange, clientId),
        serverTime |-> at, version |-> state.version]

----------------------------------------------------------------------------
(* domain/schedulerRules *)

\* a variant that also locks the session's own appointments
getLocksForRange_KeepsOwn(appointments, clientId) ==
    LET keep == SelectSeq(appointments, LAMBDA a : ~Truthy(a.cancelledAt))
    IN [i \in 1..Len(keep) |->
          [id |-> "lock_" \o keep[i].id, therapistId |-> keep[i].therapistId,
           start |-> keep[i].start, end |-> keep[i].end,
           lockedBy |-> keep[i].createdBy, reason |-> "booked"]]

getLocksForRange(appointments, clientId) ==
    LET keep == SelectSeq(appointments,
                          LAMBDA a : ~Truthy(a.cancelledAt) /\ a.createdBy # clientId)
    IN [i \in 1..Len(keep) |->
          [id |-> "lock_" \o keep[i].id, therapistId |-> keep[i].therapistId,
           start |-> keep[i].start, end |-> keep[i].end,
           lockedBy |-> keep[i].createdBy, reason |-> "booked"]]

slotOverlapsLocks(therapistId, start, end, locks) ==
    \E i \in 1..Len(locks) :
        /\ locks[i].therapistId = therapistId
        /\ overlaps(start, end, parseISO(locks[i].start), parseISO(locks[i].end))

\* ignoreAppointmentId is "" when the caller leaves it out
hasAppointmentOverlap(appointments, therapistId, start, end, ignoreAppointmentId) ==
    \E i \in 1..Len(appointments) :
        LET a == appointments[i] IN
        /\ ~Truthy(a.cancelledAt)
        /\ a.therapistId = therapistId
        /\ ~(ignoreAppointmentId # "" /\ a.id = ignoreAppointmentId)
        /\ overlaps(start, end, parseISO(a.start), parseISO(a.end))

withinTherapistWorkingHours(therapist, start, end) ==
    /\ getDay(start) \in therapist.workingHours.days
    /\ minutesSinceMidnight(start) >= therapist.workingHours.start
    /\ minutesSinceMidnight(end) <= therapist.workingHours.end

hasTimeAwayConflict(therapistId, start, end, away) ==
    LET day == formatDateInput(start) IN
    \E i \in 1..Len(away) :
        /\ away[i].therapistId = therapistId
        /\ away[i].date = day
        /\ overlaps(start, end, parseISO(toISO(day, away[i].start)),
                                parseISO(toISO(day, away[i].end)))

Ok == [ok |-> TRUE, reason |-> ""]
Fail(reason) == [ok |-> FALSE, reason |-> reason]

ReasonNoTherapist == "Therapist not found"
ReasonOutsideHours == "Outside working hours"
ReasonTimeOff == "Time off"
ReasonLocked == "Slot locked by another user"
ReasonOverlap == "Overlapping appointment"

\* a variant that tests the appointments before the locks
canScheduleWindow_ApptFirst(therapistId, start, end, appointments, locks, context, ignoreAppointmentId) ==
    LET found == { i \in 1..Len(context.therapists) : context.therapists[i].id = therapistId }
    IN IF found = {} THEN Fail(ReasonNoTherapist)
       ELSE LET therapist == context.therapists[CHOOSE i \in found : \A j \in found : i <= j]
       IN IF ~withinTherapistWorkingHours(therapist, start, end) THEN Fail(ReasonOutsideHours)
          ELSE IF hasTimeAwayConflict(therapistId, start, end, context.timeAway)
               THEN Fail(ReasonTimeOff)
          ELSE IF hasAppointmentOverlap(appointments, therapistId, start, end,
                                        ignoreAppointmentId)
               THEN Fail(ReasonOverlap)
          ELSE IF slotOverlapsLocks(therapistId, start, end, locks) THEN Fail(ReasonLocked)
          ELSE Ok

canScheduleWindow(therapistId, start, end, appointments, locks, context, ignoreAppointmentId) ==
    LET found == { i \in 1..Len(context.therapists) : context.therapists[i].id = therapistId }
    IN IF found = {} THEN Fail(ReasonNoTherapist)
       ELSE LET therapist == context.therapists[CHOOSE i \in found : \A j \in found : i <= j]
       IN IF ~withinTherapistWorkingHours(therapist, start, end) THEN Fail(ReasonOutsideHours)
          ELSE IF hasTimeAwayConflict(therapistId, start, end, context.timeAway)
               THEN Fail(ReasonTimeOff)
          ELSE IF slotOverlapsLocks(therapistId, start, end, locks) THEN Fail(ReasonLocked)
          ELSE IF hasAppointmentOverlap(appointments, therapistId, start, end,
                                        ignoreAppointmentId)
               THEN Fail(ReasonOverlap)
          ELSE Ok

nextAllowedStatuses ==
    [s \in Statuses |->
        CASE s = "scheduled" -> {"check-in", "in-progress", "completed", "incomplete"}
          [] s = "check-in" -> {"in-progress", "completed", "incomplete"}
          [] s = "in-progress" -> {"completed", "incomplete"}
          [] s = "completed" -> {}
          [] s = "incomplete" -> {}]

availabilityContext == [therapists |-> therapists, timeAway |-> timeAway]

----------------------------------------------------------------------------
(* utils/schedule: detectConflicts *)

\* the non-cancelled appointments of one therapist, in the order of the list
\* (the reduce that groups by therapistId)
ConflictGroup(appts, therapistId) ==
    SelectSeq(appts, LAMBDA a : ~Truthy(a.cancelledAt) /\ a.therapistId = therapistId)

\* [...list].sort((a, b) => start(a) - start(b)): the sort is stable, equal
\* starts keep the order of the list
SortByStart(list) ==
    LET before(i, j) ==
            \/ parseISO(list[i].start) < parseISO(list[j].start)
            \/ parseISO(list[i].start) = parseISO(list[j].start) /\ i < j
        rank(j) == Cardinality({ i \in 1..Len(list) : before(i, j) }) + 1
    IN [k \in 1..Len(list) |-> list[CHOOSE j \in 1..Len(list) : rank(j) = k]]

\* the ids of the members of the adjacent pairs of the sorted list that overlap
AdjacentConflicts(sorted) ==
    UNION { {sorted[i].id, sorted[i + 1].id} :
              i \in { k \in 1..(Len(sorted) - 1) :
                        overlaps(parseISO(sorted[k].start), parseISO(sorted[k].end),
                                 parseISO(sorted[k + 1].start),
                                 parseISO(sorted[k + 1].end)) } }

detectConflicts(appts) ==
    UNION { AdjacentConflicts(SortByStart(ConflictGroup(appts, th))) :
              th \in { appts[i].therapistId : i \in 1..Len(appts) } }

----------------------------------------------------------------------------
(* The state machine.  The API functions are async but contain no await, so
   a call's load, checks and save run to completion; the caller then resumes
   with the promise's outcome (Settle).  In this specification calls are
   issued one at a time: the next call starts after the previous promise has
   settled.  Time is logical: the clock advances by one tick with every
   commit. *)

NoState == [version |-> 0, updatedAt |-> NoIso, appointments |-> <<>>]
NoSnapshot == [appointments |-> <<>>, locks |-> <<>>, serverTime |-> NoIso, version |-> 0]
NoRange == [start |-> 0, end |-> 0 - 1]

\* what a call hands back beyond its error, when a property needs it
NoResult == <<>>

Call(op, by, id, therapistId, start, end, status, range, err, pre, snapshot) ==
    [op |-> op, by |-> by, id |-> id, therapistId |-> therapistId,
     start |-> start, end |-> end, status |-> status, range |-> range,
     err |-> err, pre |-> pre, snapshot |-> snapshot, result |-> NoResult]

Idle == Call("none", "", "", "", NoIso, NoIso, NoStatus, NoRange, NoError,
             NoState, NoSnapshot)

\* no command of the session is between its load and its save
NoCommand == [op |-> "none"]

\* hooks/useSchedulerPolling as first rendered: snapshot null, error '',
\* loading true, mountedRef.current true, no fetch issued yet
useSchedulerPolling ==
    [snapshot |-> NoSnapshot, error |-> "", loading |-> TRUE, mounted |-> TRUE,
     pending |-> <<>>, ticks |-> 0]

Init ==
    /\ storage = <<>>
    /\ clock = ClockStart
    /\ last = Idle
    /\ inflight = [s \in Sessions |-> NoCommand]
    /\ polling = useSchedulerPolling

\* what a command leaves in localStorage: what it wrote, else what readState left
Stored(outcome) ==
    IF outcome.written = <<>> THEN storageAfterRead(storage, nowIso)
    ELSE writeState(outcome.written[1])

Advance(outcome) ==
    clock' = IF outcome.written # <<>> THEN clock + 1 ELSE clock

NumCreated(state) == Len(state.appointments) - Len(seedAppointments)

CreateInput(therapistId, w) ==
    [clinicId |-> "c1", therapistId |-> therapistId, patient |-> "P",
     start |-> w.start, end |-> w.end, type |-> "evaluation", mode |-> "in-clinic"]

CreateAppointment(s, th, w) ==
    LET state == readState(storage, nowIso)
        outcome == createAppointment(state, s, CreateInput(th, w), nowIso)
    IN /\ last = Idle
       /\ state.version < MaxVersion
       /\ NumCreated(state) < MaxCreated
       /\ storage' = Stored(outcome)
       /\ Advance(outcome)
       /\ UNCHANGED <<inflight, polling>>
       /\ last' = Call("create", s, randomId(state.appointments, s), th, w.start, w.end,
                       NoStatus, NoRange, outcome.err, state, NoSnapshot)

RescheduleAppointment(s, id, w) ==
    LET state == readState(storage, nowIso)
        outcome == rescheduleAppointment(state, s, id, w.start, w.end, nowIso)
    IN /\ last = Idle
       /\ state.version < MaxVersion
       /\ storage' = Stored(outcome)
       /\ Advance(outcome)
       /\ UNCHANGED <<inflight, polling>>
       /\ last' = Call("reschedule", s, id, "", w.start, w.end, NoStatus, NoRange,
                       outcome.err, state, NoSnapshot)

ReassignAppointment(s, id, th) ==
    LET state == readState(storage, nowIso)
        outcome == reassignAppointment(state, s, id, th, nowIso)
    IN /\ last = Idle
       /\ state.version < MaxVersion
       /\ storage' = Stored(outcome)
       /\ Advance(outcome)
       /\ UNCHANGED <<inflight, polling>>
       /\ last' = Call("reassign", s, id, th, NoIso, NoIso, NoStatus, NoRange,
                       outcome.err, state, NoSnapshot)

UpdateAppointmentStatus(s, id, status) ==
    LET state == readState(storage, nowIso)
        outcome == updateAppointmentStatus(state, s, id, status, nowIso)
    IN /\ last = Idle
       /\ state.version < MaxVersion
       /\ storage' = Stored(outcome)
       /\ Advance(outcome)
       /\ UNCHANGED <<inflight, polling>>
       /\ last' = Call("status", s, id, "", NoIso, NoIso, status, NoRange,
                       outcome.err, state, NoSnapshot)

CancelAppointment(s, id) ==
    LET state == readState(storage, nowIso)
        outcome == cancelAppointment(state, s, id, nowIso)
    IN /\ last = Idle
       /\ state.version < MaxVersion
       /\ storage' = Stored(outcome)
       /\ Advance(outcome)
       /\ UNCHANGED <<inflight, polling>>
       /\ last' = Call("cancel", s, id, "", NoIso, NoIso, NoStatus, NoRange,
                       outcome.err, state, NoSnapshot)

FetchSnapshot(s, range) ==
    LET state == readState(storage, nowIso)
    IN /\ last = Idle
       /\ storage' = storageAfterRead(storage, nowIso)
       /\ UNCHANGED <<clock, inflight, polling>>
       /\ last' = Call("fetch", s, "", "", NoIso, NoIso, NoStatus, range, NoError, state,
                       fetchSnapshot(state, s, range.start, range.end, nowIso))

\* the pre-flight validator: a session fetches its snapshot and evaluates
\* canScheduleWindow on the snapshot's appointments and the locks derived
\* for it from them
Preflight(s, th, w, range) ==
    LET state == readState(storage, nowIso)
        snapshot == fetchSnapshot(state, s, range.start, range.end, nowIso)
        decision == canScheduleWindow(th, parseISO(w.start), parseISO(w.end),
                                      snapshot.appointments,
                                      getLocksForRange(snapshot.appointments, s),
                                      availabilityContext, "")
    IN /\ last = Idle
       /\ storage' = storageAfterRead(storage, nowIso)
       /\ UNCHANGED <<clock, inflight, polling>>
       /\ last' = Call("preflight", s, "", th, w.start, w.end, NoStatus, range,
                       decision.reason, state, snapshot)

\* the awaiting caller resumes with the outcome
Settle ==
    /\ last # Idle
    /\ last' = Idle
    /\ UNCHANGED <<storage, clock, inflight, polling>>

Next ==
    \/ \E s \in Sessions, th \in TherapistInputs, w \in CreateWindows : CreateAppointment(s, th, w)
    \/ \E s \in Sessions, id \in TargetIds, w \in Windows : RescheduleAppointment(s, id, w)
    \/ \E s \in Sessions, id \in TargetIds, th \in TherapistInputs : ReassignAppointment(s, id, th)
    \/ \E s \in Sessions, id \in TargetIds, status \in StatusInputs :
          UpdateAppointmentStatus(s, id, status)
    \/ \E s \in Sessions, id \in TargetIds : CancelAppointment(s, id)
    \/ \E s \in Sessions, range \in Ranges : FetchSnapshot(s, range)
    \/ \E s \in Sessions, th \in TherapistInputs, w \in Windows : Preflight(s, th, w, Week)
    \/ Settle

Spec == Init /\ [][Next]_vars

----------------------------------------------------------------------------
(* Two sessions racing.  Each session is a browser tab with its own thread;
   the tabs share localStorage[STORAGE_KEY] and nothing synchronises them,
   so one tab's readState and writeState can fall on either side of the
   other's.  A command is split where it touches the shared item: Begin is
   its readState, Commit its checks on the loaded state and its writeState. *)

\* the commits made so far (the clock ticks once per commit)
Commits == clock - ClockStart

\* the windows of the racing commands: Monday 10:30-11:30 and 11:00-12:00,
\* which overlap each other and no seed
RaceWindows == { Window(1, HHmm(10, 30), HHmm(11, 30)), Window(1, HHmm(11, 0), HHmm(12, 0)) }

FirstId(s) == "id_" \o s \o "_" \o ToString(1)

\* the commands a session issues in the race: a create on t1, a reschedule
\* or a cancel of the first appointment it created
RaceCommands(s) ==
    { [op |-> "create", id |-> "", therapistId |-> "t1", start |-> w.start, end |-> w.end] :
        w \in RaceWindows }
    \cup { [op |-> "reschedule", id |-> FirstId(s), therapistId |-> "", start |-> w.start,
            end |-> w.end] : w \in RaceWindows }
    \cup { [op |-> "cancel", id |-> FirstId(s), therapistId |-> "", start |-> NoIso,
            end |-> NoIso] }

\* the command's checks and candidate, on the state it loaded
Run(cmd, state, clientId, at) ==
    CASE cmd.op = "create" ->
            createAppointment(state, clientId,
                CreateInput(cmd.therapistId, [start |-> cmd.start, end |-> cmd.end]), at)
      [] cmd.op = "reschedule" ->
            rescheduleAppointment(state, clientId, cmd.id, cmd.start, cmd.end, at)
      [] cmd.op = "cancel" -> cancelAppointment(state, clientId, cmd.id, at)

\* const state = readState()
Begin(s, cmd) ==
    LET state == readState(storage, nowIso)
    IN /\ last = Idle
       /\ inflight[s] = NoCommand
       /\ Commits < MaxVersion - 1
       /\ NumCreated(state) < MaxCreated
       /\ storage' = storageAfterRead(storage, nowIso)
       /\ inflight' = [inflight EXCEPT ![s] =
                          [op |-> cmd.op, id |-> cmd.id, therapistId |-> cmd.therapistId,
                           start |-> cmd.start, end |-> cmd.end, state |-> state]]
       /\ UNCHANGED <<clock, last, polling>>

\* the rest of the command: its throws, else writeState(next).  The call's
\* result is the state the item held when the command saved or threw.
Commit(s) ==
    LET cmd == inflight[s]
        outcome == Run(cmd, cmd.state, s, nowIso)
    IN /\ last = Idle
       /\ cmd # NoCommand
       /\ storage' = IF outcome.written = <<>> THEN storage
                     ELSE writeState(outcome.written[1])
       /\ Advance(outcome)
       /\ inflight' = [inflight EXCEPT ![s] = NoCommand]
       /\ UNCHANGED polling
       /\ last' = [Call(cmd.op, s,
                        IF cmd.op = "create" THEN randomId(cmd.state.appointments, s)
                        ELSE cmd.id,
                        cmd.therapistId, cmd.start, cmd.end, NoStatus, NoRange,
                        outcome.err, cmd.state, NoSnapshot)
                   EXCEPT !.result = storage[1].value]

NextRace ==
    \/ \E s \in Sessions : \E cmd \in RaceCommands(s) : Begin(s, cmd)
    \/ \E s \in Sessions : Commit(s)
    \/ Settle

SpecRace == Init /\ [][NextRace]_vars

----------------------------------------------------------------------------
(* The rules on a wider input.  The store takes whatever createAppointment
   is given (any therapistId, any start and end); canScheduleWindow is a pure
   function of its arguments.  Here both are called on inputs the calendar's
   form would not produce. *)

\* t2 (Thursday 2025-01-16: works 09:00-17:00, away 13:00-14:30, seed a6 at
\* 15:00-16:30) and an id no therapist has
RuleTherapists == {"t2", "t9"}

\* Thursday 13:00-14:00 (inside the time away) and 10:00-11:00 (free)
RuleCreateWindows == { Window(4, HHmm(13, 0), HHmm(14, 0)), Window(4, HHmm(10, 0), HHmm(11, 0)) }

\* also 15:00-16:00 (overlaps a6) and 16:00-17:30 (overlaps a6, ends after hours)
RuleWindows ==
    RuleCreateWindows
    \cup { Window(4, HHmm(15, 0), HHmm(16, 0)), Window(4, HHmm(16, 0), HHmm(17, 30)) }

\* canScheduleWindow(therapistId, start, end, appointments, locks, context,
\* ignoreAppointmentId) on the appointments of the session's snapshot; locks
\* is the list derived for the session or the empty list the calendar passes
Validate(s, th, w, derive, ignore) ==
    LET state == readState(storage, nowIso)
        snapshot == fetchSnapshot(state, s, Week.start, Week.end, nowIso)
        locks == IF derive THEN getLocksForRange(snapshot.appointments, s) ELSE <<>>
        decision == canScheduleWindow(th, parseISO(w.start), parseISO(w.end),
                                      snapshot.appointments, locks, availabilityContext,
                                      ignore)
    IN /\ last = Idle
       /\ storage' = storageAfterRead(storage, nowIso)
       /\ UNCHANGED <<clock, inflight, polling>>
       /\ last' = [Call("validate", s, ignore, th, w.start, w.end, NoStatus, Week,
                        decision.reason, state, [snapshot EXCEPT !.locks = locks])
                   EXCEPT !.result = decision]

\* a window whose end precedes its start: Monday 09:15 back to 08:00, on t1
\* between the starts of seeds a1 (09:00) and a2 (09:30)
InvertedWindow == Window(1, HHmm(9, 15), HHmm(8, 0))

\* App: conflicts = detectConflicts(filteredAppointments), on the polled
\* snapshot with every clinic and role selected
ShowConflicts(s) ==
    LET state == readState(storage, nowIso)
        snapshot == fetchSnapshot(state, s, Week.start, Week.end, nowIso)
        filteredAppointments ==
            SelectSeq(snapshot.appointments,
                      LAMBDA a : withinDateRange(a.start, Week.start, Week.end))
    IN /\ last = Idle
       /\ storage' = storageAfterRead(storage, nowIso)
       /\ UNCHANGED <<clock, inflight, polling>>
       /\ last' = [Call("detect", s, "", "", NoIso, NoIso, NoStatus, Week, NoError, state,
                        [snapshot EXCEPT !.appointments = filteredAppointments])
                   EXCEPT !.result = detectConflicts(filteredAppointments)]

\* components/AvailabilityGrid: a time of day on a calendar date, as a Date
atDate(dateISO, minutes) == parseISO(toISO(dateISO, minutes))

\* Array.prototype.find over 1..n as an index: the first hit, 0 for none
FirstHit(hits) == IF hits = {} THEN 0 ELSE CHOOSE i \in hits : \A j \in hits : i <= j

\* a variant that looks at the appointments before the time away
resolveSlot_BookedFirst(therapist, dateISO, startMin, endMin, appts, away) ==
    LET start == atDate(dateISO, startMin)
        end == atDate(dateISO, endMin)
        awayHit == FirstHit({ i \in 1..Len(away) :
            /\ away[i].therapistId = therapist.id
            /\ away[i].date = dateISO
            /\ overlaps(start, end, atDate(dateISO, away[i].start),
                                    atDate(dateISO, away[i].end)) })
        apptHit == FirstHit({ i \in 1..Len(appts) :
            /\ ~Truthy(appts[i].cancelledAt)
            /\ appts[i].therapistId = therapist.id
            /\ overlaps(start, end, parseISO(appts[i].start), parseISO(appts[i].end)) })
    IN IF getDay(start) \notin therapist.workingHours.days
       THEN [status |-> "off", label |-> "", sublabel |-> ""]
       ELSE IF startMin < therapist.workingHours.start \/ endMin > therapist.workingHours.end
       THEN [status |-> "off", label |-> "", sublabel |-> ""]
       ELSE IF apptHit # 0
       THEN [status |-> "booked",
             label |-> IF appts[apptHit].type = "evaluation" THEN "Eval" ELSE "Follow-up",
             sublabel |-> appts[apptHit].patient]
       ELSE IF awayHit # 0
       THEN [status |-> "time-off", label |-> "Time off", sublabel |-> away[awayHit].reason]
       ELSE [status |-> "available", label |-> "Available", sublabel |-> ""]

resolveSlot(therapist, dateISO, startMin, endMin, appts, away) ==
    LET start == atDate(dateISO, startMin)
        end == atDate(dateISO, endMin)
        awayHit == FirstHit({ i \in 1..Len(away) :
            /\ away[i].therapistId = therapist.id
            /\ away[i].date = dateISO
            /\ overlaps(start, end, atDate(dateISO, away[i].start),
                                    atDate(dateISO, away[i].end)) })
        apptHit == FirstHit({ i \in 1..Len(appts) :
            /\ ~Truthy(appts[i].cancelledAt)
            /\ appts[i].therapistId = therapist.id
            /\ overlaps(start, end, parseISO(appts[i].start), parseISO(appts[i].end)) })
    IN IF getDay(start) \notin therapist.workingHours.days
       THEN [status |-> "off", label |-> "", sublabel |-> ""]
       ELSE IF startMin < therapist.workingHours.start \/ endMin > therapist.workingHours.end
       THEN [status |-> "off", label |-> "", sublabel |-> ""]
       ELSE IF awayHit # 0
       THEN [status |-> "time-off", label |-> "Time off", sublabel |-> away[awayHit].reason]
       ELSE IF apptHit # 0
       THEN [status |-> "booked",
             label |-> IF appts[apptHit].type = "evaluation" THEN "Eval" ELSE "Follow-up",
             sublabel |-> appts[apptHit].patient]
       ELSE [status |-> "available", label |-> "Available", sublabel |-> ""]

\* the slots the grid resolves for therapist t2: Thursday 10:00-11:00,
\* 13:00-14:00 and 14:00-15:00 (in the time away 13:00-14:30), 15:00-16:00
\* (seed a6), 13:30-17:30 (ends after hours, over the time away and a6), and
\* Sunday 10:00-11:00
SlotInputs ==
    { [day |-> 4, startMin |-> HHmm(10, 0), endMin |-> HHmm(11, 0)],
      [day |-> 4, startMin |-> HHmm(13, 0), endMin |-> HHmm(14, 0)],
      [day |-> 4, startMin |-> HHmm(14, 0), endMin |-> HHmm(15, 0)],
      [day |-> 4, startMin |-> HHmm(15, 0), endMin |-> HHmm(16, 0)],
      [day |-> 4, startMin |-> HHmm(13, 30), endMin |-> HHmm(17, 30)],
      [day |-> 0, startMin |-> HHmm(10, 0), endMin |-> HHmm(11, 0)] }

\* AvailabilityGrid: buildSegments resolves a slot of the selected therapist
\* against the appointments of the polled snapshot and the time away
ResolveSlot(s, slot) ==
    LET state == readState(storage, nowIso)
        snapshot == fetchSnapshot(state, s, Week.start, Week.end, nowIso)
        selected == therapists[CHOOSE i \in 1..Len(therapists) : therapists[i].id = "t2"]
    IN /\ last = Idle
       /\ storage' = storageAfterRead(storage, nowIso)
       /\ UNCHANGED <<clock, inflight, polling>>
       /\ last' = [Call("slot", s, "", selected.id,
                        Window(slot.day, slot.startMin, slot.endMin).start,
                        Window(slot.day, slot.startMin, slot.endMin).end,
                        NoStatus, [start |-> slot.day, end |-> slot.day], NoError, state,
                        snapshot)
                   EXCEPT !.result = resolveSlot(selected, slot.day, slot.startMin,
                                                 slot.endMin, snapshot.appointments,
                                                 timeAway)]

NextRules ==
    \/ \E s \in Sessions, th \in RuleTherapists, w \in RuleCreateWindows :
          CreateAppointment(s, th, w)
    \/ \E s \in Sessions : CreateAppointment(s, "t1", InvertedWindow)
    \/ \E s \in Sessions : ShowConflicts(s)
    \/ \E s \in Sessions, slot \in SlotInputs : ResolveSlot(s, slot)
    \/ \E s \in Sessions, th \in RuleTherapists, w \in RuleWindows, derive \in BOOLEAN :
          \E ignore \in {"", FirstId(s)} : Validate(s, th, w, derive, ignore)
    \/ Settle

SpecRules == Init /\ [][NextRules]_vars

----------------------------------------------------------------------------
(* detectConflicts on arbitrary lists.  The function is pure; it is applied
   to every list of up to MaxListed appointments over a small grid. *)

\* Monday 09:00, 10:00, 11:00, 12:00
GridTimes == { HHmm(9, 0), HHmm(10, 0), HHmm(11, 0), HHmm(12, 0) }

\* an appointment as detectConflicts reads it: therapist, interval with
\* start < end, cancelled or not
ListedShapes ==
    { [therapistId |-> c[1], startMin |-> a, endMin |-> b, cancelled |-> c[2]] :
        a \in GridTimes, b \in GridTimes,
        c \in { <<"t1", FALSE>>, <<"t1", TRUE>>, <<"t2", FALSE>> } }

ProperShapes == { x \in ListedShapes : x.startMin < x.endMin }

Listed(shapes) ==
    [i \in 1..Len(shapes) |->
        [id |-> "x" \o ToString(i), therapistId |-> shapes[i].therapistId,
         start |-> Window(1, shapes[i].startMin, shapes[i].endMin).start,
         end |-> Window(1, shapes[i].startMin, shapes[i].endMin).end,
         cancelledAt |-> IF shapes[i].cancelled THEN seededUpdatedAt ELSE NoIso]]

DetectInputs ==
    { Listed(shapes) : shapes \in UNION { [1..n -> ProperShapes] : n \in 0..MaxListed } }

\* const conflicts = detectConflicts(appts)
DetectConflicts(appts) ==
    /\ last = Idle
    /\ last' = [Call("detect", "", "", "", NoIso, NoIso, NoStatus, NoRange, NoError, NoState,
                     [NoSnapshot EXCEPT !.appointments = appts])
                EXCEPT !.result = detectConflicts(appts)]
    /\ UNCHANGED <<storage, clock, inflight, polling>>

NextDetect ==
    \/ last = Idle /\ \E appts \in DetectInputs : DetectConflicts(appts)
    \/ Settle

SpecDetect == Init /\ [][NextDetect]_vars

----------------------------------------------------------------------------
(* The polling hook over the racing store.  One component of session
   Viewer has mounted useSchedulerPolling for the week.  Every tick (the
   one at mount, the interval's, a refresh) calls api.fetchSnapshot and
   awaits it; the continuation runs when the promise settles, which may be
   after later commits, later ticks or the unmount.  The promise resolves
   with the snapshot, or rejects when localStorage cannot be read.  The
   cleanup of the effects sets mountedRef.current to false and clears the
   interval.  The sessions' commands are taken from those of the race. *)

Viewer == "client_A"

\* the values api.fetchSnapshot may reject with: an Error, something else
Rejections ==
    { [isError |-> TRUE, message |-> "The operation is insecure."],
      [isError |-> FALSE, message |-> ""] }

Resolved(snapshot) == [ok |-> TRUE, value |-> snapshot, thrown |-> <<>>]
Rejected(e) == [ok |-> FALSE, value |-> NoSnapshot, thrown |-> <<e>>]

\* a variant that applies the result whatever mountedRef holds
tick_IgnoresUnmount(hook, outcome) ==
    IF outcome.ok
    THEN [hook EXCEPT !.snapshot = outcome.value, !.error = "", !.loading = FALSE]
    ELSE [hook EXCEPT !.error = IF outcome.thrown[1].isError THEN outcome.thrown[1].message
                                ELSE "Failed to refresh appointments",
                      !.loading = FALSE]

\* a variant that keeps the first snapshot it was given
tick_KeepsFirst(hook, outcome) ==
    IF ~hook.mounted THEN hook
    ELSE IF outcome.ok /\ hook.snapshot = NoSnapshot
    THEN [hook EXCEPT !.snapshot = outcome.value, !.error = "", !.loading = FALSE]
    ELSE [hook EXCEPT !.loading = FALSE]

\* tick, from the point where its await resumes
tick(hook, outcome) ==
    IF ~hook.mounted THEN hook
    ELSE IF outcome.ok
    THEN [hook EXCEPT !.snapshot = outcome.value, !.error = "", !.loading = FALSE]
    ELSE [hook EXCEPT !.error = IF outcome.thrown[1].isError THEN outcome.thrown[1].message
                                ELSE "Failed to refresh appointments",
                      !.loading = FALSE]

\* a tick calls api.fetchSnapshot(rangeStart, rangeEnd), which reads the store
TickFetch ==
    LET state == readState(storage, nowIso)
        snapshot == fetchSnapshot(state, Viewer, Week.start, Week.end, nowIso)
    IN /\ last = Idle
       /\ polling.mounted
       /\ polling.ticks < MaxTicks
       /\ storage' = storageAfterRead(storage, nowIso)
       /\ polling' = [polling EXCEPT !.pending = Append(@, Resolved(snapshot)),
                                     !.ticks = @ + 1]
       /\ UNCHANGED <<clock, last, inflight>>

\* a tick whose api.fetchSnapshot rejects
TickReject(e) ==
    /\ last = Idle
    /\ polling.mounted
    /\ polling.ticks < MaxTicks
    /\ polling' = [polling EXCEPT !.pending = Append(@, Rejected(e)), !.ticks = @ + 1]
    /\ UNCHANGED <<storage, clock, last, inflight>>

\* the oldest awaited promise settles and its tick resumes
TickResume ==
    /\ last = Idle
    /\ polling.pending # <<>>
    /\ polling' = [tick(polling, Head(polling.pending)) EXCEPT !.pending = Tail(polling.pending)]
    /\ UNCHANGED <<storage, clock, last, inflight>>

\* the component unmounts: the effects' cleanups run
Unmount ==
    /\ last = Idle
    /\ polling.mounted
    /\ polling' = [polling EXCEPT !.mounted = FALSE]
    /\ UNCHANGED <<storage, clock, last, inflight>>

\* the commands issued while the hook polls: creates on t1 for Monday 10:30-11:30
PollCommands(s) ==
    { cmd \in RaceCommands(s) :
        cmd.op = "create" /\ cmd.start = Window(1, HHmm(10, 30), HHmm(11, 30)).start }

NextPoll ==
    \/ \E s \in Sessions : \E cmd \in PollCommands(s) : Begin(s, cmd)
    \/ \E s \in Sessions : Commit(s)
    \/ Settle
    \/ TickFetch
    \/ \E e \in Rejections : TickReject(e)
    \/ TickResume
    \/ Unmount

SpecPoll == Init /\ [][NextPoll]_vars

----------------------------------------------------------------------------
(* The commands on a store found in localStorage.  readState returns
   whatever the item parses to and checks nothing about it, so a command
   may load a list in which appointments of one therapist overlap: here
   the seed plus one or two appointments on t1, Monday 10:30-11:30 or
   11:00-12:00, written as createAppointment writes them.  The sessions
   then issue their commands one at a time. *)

\* the record createAppointment stores for the n-th appointment of a session
Booked(clientId, n, therapistId, w, at) ==
    [id |-> "id_" \o clientId \o "_" \o ToString(n),
     clinicId |-> "c1", therapistId |-> therapistId, patient |-> "P",
     start |-> w.start, end |-> w.end, type |-> "evaluation", mode |-> "in-clinic",
     status |-> "scheduled", createdBy |-> clientId, updatedAt |-> at,
     cancelledAt |-> NoIso, cancelledBy |-> "",
     audit |-> << AuditEvent(at, clientId, "created", NoDelta,
                             [start |-> w.start, end |-> w.end, status |-> "scheduled"],
                             NoNote) >>]

StoredLists ==
    { << Booked(s, 1, "t1", w, toISOString(ClockStart - 2)) >> :
        s \in Sessions, w \in RaceWindows }
    \cup
    { << Booked(s1, 1, "t1", w1, toISOString(ClockStart - 2)),
         Booked(s2, IF s2 = s1 THEN 2 ELSE 1, "t1", w2, toISOString(ClockStart - 1)) >> :
        s1 \in Sessions, s2 \in Sessions, w1 \in RaceWindows, w2 \in RaceWindows }

StoredStates ==
    { [version |-> 2,
       updatedAt |-> list[Len(list)].updatedAt,
       appointments |-> seedAppointments \o list] : list \in StoredLists }

InitStored ==
    /\ storage \in { << JSONstringify(state) >> : state \in StoredStates }
    /\ clock = ClockStart
    /\ last = Idle
    /\ inflight = [s \in Sessions |-> NoCommand]
    /\ polling = useSchedulerPolling

NextStored ==
    \/ \E s \in Sessions, id \in TargetIds, status \in StatusInputs :
          UpdateAppointmentStatus(s, id, status)
    \/ \E s \in Sessions, id \in TargetIds : CancelAppointment(s, id)
    \/ \E s \in Sessions, id \in TargetIds, w \in RaceWindows : RescheduleAppointment(s, id, w)
    \/ \E s \in Sessions, id \in TargetIds, th \in TherapistInputs : ReassignAppointment(s, id, th)
    \/ \E s \in Sessions, w \in RaceWindows : CreateAppointment(s, "t1", w)
    \/ \E s \in Sessions, w \in RaceWindows : Preflight(s, "t1", w, Week)
    \/ \E s \in Sessions, w \in RaceWindows, derive \in BOOLEAN :
          Validate(s, "t1", w, derive, FirstId(s))
    \/ Settle

SpecStored == InitStored /\ [][NextStored]_vars

----------------------------------------------------------------------------
(* The store under a damaged item.  localStorage belongs to the browser
   profile: between two calls the item may be removed (site data cleared)
   or replaced by text that does not parse.  readState has a branch for
   each case.  The sessions create appointments one call at a time while
   the Viewer's hook polls the week. *)

Unparsable == [parses |-> FALSE, value |-> NoState]

\* the item is removed or overwritten from outside the application
Damage ==
    /\ last = Idle
    /\ storage # <<>>
    /\ storage[1].parses
    /\ storage' \in { <<>>, << Unparsable >> }
    /\ UNCHANGED <<clock, last, inflight, polling>>

NextReset ==
    \/ /\ Commits < MaxVersion - 1
       /\ \E s \in Sessions, w \in RaceWindows : CreateAppointment(s, "t2", w)
    \/ Settle
    \/ TickFetch
    \/ TickResume
    \/ Damage

SpecReset == Init /\ [][NextReset]_vars

----------------------------------------------------------------------------
(* utils/schedule snapMinutes on its own: every minute count up to
   MaxMinutes, every slot size up to MaxSlot, every mode. *)

SnapModes == {"floor", "round", "ceil"}

SnapMinutes(m, slot, mode) ==
    /\ last' = [Call("snap", "", "", "", NoIso, NoIso, NoStatus, NoRange, NoError, NoState,
                     NoSnapshot)
                EXCEPT !.result = [minutes |-> m, slot |-> slot, mode |-> mode,
                                   snapped |-> snapMinutes(m, slot, mode)]]
    /\ UNCHANGED <<storage, clock, inflight, polling>>

NextSnap ==
    \/ /\ last = Idle
       /\ \E m \in 0..MaxMinutes, slot \in 1..MaxSlot, mode \in SnapModes :
             SnapMinutes(m, slot, mode)
    \/ Settle

SpecSnap == Init /\ [][NextSnap]_vars

----------------------------------------------------------------------------
(* The polling hook left mounted.  window.setInterval(tick, intervalMs) keeps
   calling tick for as long as the effect is not cleaned up, every
   api.fetchSnapshot resolves, and every command's promise settles: the
   interval's tick, the resumption of an awaited tick and the settling of a
   call are weakly fair.  The timer and the promises of the hook do not wait
   for the commands of the tabs, so a tick and a resumption run in any state.
   The fetch of one tick has settled before the interval fires again, so the
   ticks are not counted. *)

\* no commit is followed yet
NoWatch == [id |-> "", at |-> 0, version |-> 0]

\* the hook as first rendered, with the commit an observer follows
WatchedHook ==
    [snapshot |-> useSchedulerPolling.snapshot, error |-> useSchedulerPolling.error,
     loading |-> useSchedulerPolling.loading, mounted |-> useSchedulerPolling.mounted,
     pending |-> <<>>, ticks |-> useSchedulerPolling.ticks, watch |-> NoWatch]

InitLive ==
    /\ storage = <<>>
    /\ clock = ClockStart
    /\ last = Idle
    /\ inflight = [s \in Sessions |-> NoCommand]
    /\ polling = WatchedHook

IntervalTick ==
    LET state == readState(storage, nowIso)
        snapshot == fetchSnapshot(state, Viewer, Week.start, Week.end, nowIso)
    IN /\ polling.mounted
       /\ polling.pending = <<>>
       /\ storage' = storageAfterRead(storage, nowIso)
       /\ polling' = [polling EXCEPT !.pending = Append(@, Resolved(snapshot))]
       /\ UNCHANGED <<clock, last, inflight>>

\* the oldest awaited promise settles and its tick resumes
IntervalResume ==
    /\ polling.pending # <<>>
    /\ polling' = [tick(polling, Head(polling.pending)) EXCEPT !.pending = Tail(polling.pending)]
    /\ UNCHANGED <<storage, clock, last, inflight>>

\* creates on t1 for Monday 10:30-11:30 by both tabs, and the other tab's
\* cancel of the first appointment it created
LiveCommands(s) ==
    PollCommands(s) \cup { cmd \in RaceCommands(s) : cmd.op = "cancel" /\ s # Viewer }

\* an observer starts to follow the commit that has just succeeded, when its
\* appointment starts inside the hook's range: the id, the time of the commit
\* and the version it wrote
Watch ==
    /\ polling.watch = NoWatch
    /\ last.op \in {"create", "reschedule", "reassign", "status", "cancel"}
    /\ last.err = NoError
    /\ FindIndex(storage[1].value.appointments, last.id) # 0
    /\ LET state == storage[1].value
           appt == state.appointments[FindIndex(state.appointments, last.id)]
       IN /\ withinDateRange(appt.start, Week.start, Week.end)
          /\ polling' = [polling EXCEPT !.watch = [id |-> appt.id,
                                                   at |-> parseISO(appt.updatedAt),
                                                   version |-> state.version]]
    /\ UNCHANGED <<storage, clock, last, inflight>>

NextLive ==
    \/ \E s \in Sessions : \E cmd \in LiveCommands(s) : Begin(s, cmd)
    \/ \E s \in Sessions : Commit(s)
    \/ Settle
    \/ IntervalTick
    \/ IntervalResume
    \/ Watch

SpecLive ==
    /\ InitLive
    /\ [][NextLive]_vars
    /\ WF_vars(IntervalTick)
    /\ WF_vars(IntervalResume)
    /\ WF_vars(Settle)

----------------------------------------------------------------------------
(* The polling hook under a change of range.  rangeStart and rangeEnd are
   props and dependencies of the effect: when they change, the cleanup clears
   the interval and the effect runs again, calling tick() for the new range.
   A tick of the earlier effect that is still awaiting api.fetchSnapshot is
   not cancelled; the hook takes any SchedulerApi, and nothing orders the
   settlement of two of its promises.  The hook's record also remembers the
   range each awaited fetch was issued for and the range of the result it
   holds. *)

RangedHook(range) ==
    [snapshot |-> useSchedulerPolling.snapshot, error |-> useSchedulerPolling.error,
     loading |-> useSchedulerPolling.loading, mounted |-> useSchedulerPolling.mounted,
     pending |-> <<>>, ticks |-> useSchedulerPolling.ticks,
     range |-> range, shown |-> NoRange]

InitRange ==
    /\ storage = <<>>
    /\ clock = ClockStart
    /\ last = Idle
    /\ inflight = [s \in Sessions |-> NoCommand]
    /\ polling = RangedHook(Week)

Without(seq, i) == SubSeq(seq, 1, i - 1) \o SubSeq(seq, i + 1, Len(seq))

\* tick of the effect that runs for `range`: api.fetchSnapshot(rangeStart, rangeEnd)
FetchFor(hook, range) ==
    LET state == readState(storage, nowIso)
        snapshot == fetchSnapshot(state, Viewer, range.start, range.end, nowIso)
    IN [hook EXCEPT !.pending = Append(@, [outcome |-> Resolved(snapshot), range |-> range]),
                    !.ticks = @ + 1]

\* the mount's or the interval's tick of the current effect
RangeTick ==
    /\ last = Idle
    /\ polling.mounted
    /\ polling.ticks < MaxTicks
    /\ storage' = storageAfterRead(storage, nowIso)
    /\ polling' = FetchFor(polling, polling.range)
    /\ UNCHANGED <<clock, last, inflight>>

\* the component is rendered with another range: cleanup, then the effect
\* again with its `void tick()`
ChangeRange(range) ==
    /\ last = Idle
    /\ polling.mounted
    /\ polling.ticks < MaxTicks
    /\ range # polling.range
    /\ storage' = storageAfterRead(storage, nowIso)
    /\ polling' = FetchFor([polling EXCEPT !.range = range], range)
    /\ UNCHANGED <<clock, last, inflight>>

\* one of the awaited promises settles and its tick resumes
RangeResume(i) ==
    LET settled == polling.pending[i]
        resumed == tick(polling, settled.outcome)
    IN /\ last = Idle
       /\ polling' = [resumed EXCEPT !.pending = Without(polling.pending, i),
                                     !.shown = IF polling.mounted /\ settled.outcome.ok
                                               THEN settled.range ELSE @]
       /\ UNCHANGED <<storage, clock, last, inflight>>

NextRange ==
    \/ /\ Commits < MaxVersion - 1
       /\ \E s \in Sessions, th \in TherapistInputs, w \in RaceWindows :
             CreateAppointment(s, th, w)
    \/ Settle
    \/ RangeTick
    \/ \E range \in Ranges : ChangeRange(range)
    \/ \E i \in 1..Len(polling.pending) : RangeResume(i)
    \/ Unmount

SpecRange == InitRange /\ [][NextRange]_vars

----------------------------------------------------------------------------
(* components/Calendar: the create form and the drop of a dragged event, each
   validating with canScheduleWindow before it issues the command.  The
   appointments are those of a snapshot fetched for the session just before;
   locks is the empty list the calendar passes or the list derived for the
   session *)

slotMinutes == 15

getAppointmentDurationMinutes(appt) == minutesDiff(parseISO(appt.start), parseISO(appt.end))

\* the times of day (local) the form holds or an event is dropped at
CalendarTimes == { HHmm(9, 10), HHmm(10, 37) }

Validated(call, decision, locks, snapshot) ==
    [call EXCEPT !.result = decision, !.range = Week,
                 !.snapshot = [snapshot EXCEPT !.locks = locks]]

\* handleCreate with createTherapistId = th, createDate = day, createStartTime
\* = hhmm and createDurationMinutes = duration, then App's onCreate
HandleCreate(s, th, patient, day, hhmm, duration, derive) ==
    LET state == readState(storage, nowIso)
        snapshot == fetchSnapshot(state, s, Week.start, Week.end, nowIso)
        locks == IF derive THEN getLocksForRange(snapshot.appointments, s) ELSE <<>>
        found == { i \in 1..Len(therapists) : therapists[i].id = th }
        therapist == therapists[CHOOSE i \in found : TRUE]
        rawStart == parseISO(toISO(day, hhmm))
        start == snapDateToSlot(rawStart, slotMinutes, "floor")
        rounded == MathRound(duration, slotMinutes) * slotMinutes
        end == addMinutes(start, IF rounded > slotMinutes THEN rounded ELSE slotMinutes)
        validation == canScheduleWindow(th, start, end, snapshot.appointments, locks,
                                        availabilityContext, "")
        input == [clinicId |-> therapist.clinicId, therapistId |-> th,
                  patient |-> patient, start |-> toISOString(start),
                  end |-> toISOString(end), type |-> "evaluation", mode |-> "in-clinic"]
        outcome == createAppointment(state, s, input, nowIso)
    IN /\ last = Idle
       /\ state.version < MaxVersion
       /\ NumCreated(state) < MaxCreated
       /\ found # {}
       /\ patient # ""
       /\ UNCHANGED <<inflight, polling>>
       /\ IF validation.ok
          THEN /\ storage' = Stored(outcome)
               /\ Advance(outcome)
               /\ last' = Validated(Call("create", s, "", th, input.start, input.end,
                                         NoStatus, NoRange, outcome.err, state, NoSnapshot),
                                    validation, locks, snapshot)
          ELSE /\ storage' = storageAfterRead(storage, nowIso)
               /\ UNCHANGED clock
               /\ last' = Validated(Call("validate", s, "", th, input.start, input.end,
                                         NoStatus, NoRange, validation.reason, state,
                                         NoSnapshot),
                                    validation, locks, snapshot)

\* handleEventDrop of the event of appointment id at the local time hhmm of
\* Monday, over the resource resourceId ("" when the view has none), then
\* App's onReschedule
HandleEventDrop(s, id, hhmm, resourceId, derive) ==
    LET state == readState(storage, nowIso)
        snapshot == fetchSnapshot(state, s, Week.start, Week.end, nowIso)
        locks == IF derive THEN getLocksForRange(snapshot.appointments, s) ELSE <<>>
        appt == snapshot.appointments[FindIndex(snapshot.appointments, id)]
        snappedStart == snapDateToSlot(parseISO(toISO(1, hhmm)), slotMinutes, "round")
        nextEnd == addMinutes(snappedStart, getAppointmentDurationMinutes(appt))
        validation == canScheduleWindow(appt.therapistId, snappedStart, nextEnd,
                                        snapshot.appointments, locks,
                                        availabilityContext, appt.id)
        outcome == rescheduleAppointment(state, s, id, toISOString(snappedStart),
                                         toISOString(nextEnd), nowIso)
    IN /\ last = Idle
       /\ state.version < MaxVersion
       /\ FindIndex(snapshot.appointments, id) # 0
       /\ ~Truthy(appt.cancelledAt)
       /\ resourceId = "" \/ resourceId = appt.therapistId
       /\ UNCHANGED <<inflight, polling>>
       /\ IF validation.ok
          THEN /\ storage' = Stored(outcome)
               /\ Advance(outcome)
               /\ last' = Validated(Call("reschedule", s, id, appt.therapistId,
                                         toISOString(snappedStart), toISOString(nextEnd),
                                         NoStatus, NoRange, outcome.err, state, NoSnapshot),
                                    validation, locks, snapshot)
          ELSE /\ storage' = storageAfterRead(storage, nowIso)
               /\ UNCHANGED clock
               /\ last' = Validated(Call("validate", s, id, appt.therapistId,
                                         toISOString(snappedStart), toISOString(nextEnd),
                                         NoStatus, NoRange, validation.reason, state,
                                         NoSnapshot),
                                    validation, locks, snapshot)

NextCalendar ==
    \/ /\ last = Idle
       /\ \E s \in Sessions, th \in TherapistInputs, patient \in {"P", ""},
             hhmm \in CalendarTimes, derive \in BOOLEAN :
             HandleCreate(s, th, patient, 1, hhmm, 60, derive)
    \/ /\ last = Idle
       /\ \E s \in Sessions, id \in TargetIds, hhmm \in CalendarTimes,
             resourceId \in {"", "t1", "t2"}, derive \in BOOLEAN :
             HandleEventDrop(s, id, hhmm, resourceId, derive)
    \/ /\ last = Idle
       /\ \E s \in Sessions : CancelAppointment(s, FirstId(s))
    \/ Settle

SpecCalendar == Init /\ [][NextCalendar]_vars

----------------------------------------------------------------------------
(* Vocabulary of the properties *)

\* the store state a load now returns
Current == storage[1].value

Commands == {"create", "reschedule", "reassign", "status", "cancel"}
Mutations == {"reschedule", "reassign", "status", "cancel"}

Succeeded == last.op \in Commands /\ last.err = NoError
Failed == last.op \in Commands /\ last.err # NoError

Has(state, id) == FindIndex(state.appointments, id) # 0
Appt(state, id) == state.appointments[FindIndex(state.appointments, id)]

\* the call is a mutation of an appointment the loaded state holds
OnExisting == last.op \in Mutations /\ Has(last.pre, last.id)

\* half-open overlap of two appointments' intervals, stated on the instants
Intersect(a, b) ==
    parseISO(a.start) < parseISO(b.end) /\ parseISO(b.start) < parseISO(a.end)

DoubleBooked(appointments) ==
    { <<i, j>> \in (1..Len(appointments)) \X (1..Len(appointments)) :
        /\ i < j
        /\ ~Truthy(appointments[i].cancelledAt)
        /\ ~Truthy(appointments[j].cancelledAt)
        /\ appointments[i].therapistId = appointments[j].therapistId
        /\ Intersect(appointments[i], appointments[j]) }

----------------------------------------------------------------------------
(* C1 - C2 *)

\* C1  No-overlap invariant: in every store state produced by a successful
\* commit, no two distinct non-cancelled appointments of the same therapist
\* have overlapping half-open intervals.
C1_NoOverlapAfterCommit ==
    Succeeded => DoubleBooked(Current.appointments) = {}

\* C2  Version monotonicity: a successful command leaves the version exactly
\* 1 greater than the version it loaded; a failed command leaves it unchanged.
C2_VersionMonotonic ==
    last.op \in Commands =>
        Current.version = last.pre.version + (IF last.err = NoError THEN 1 ELSE 0)

C2_Witness ==
    /\ last.op = "status"
    /\ last.err = NoError
    /\ last.pre.version > 1

----------------------------------------------------------------------------
(* C3 - C5 *)

IsPrefix(old, new) == Len(old) <= Len(new) /\ SubSeq(new, 1, Len(old)) = old

\* C3  Audit append-only: a successful reschedule, reassign, status update or
\* cancel leaves the appointment's audit trail equal to the trail before it
\* with exactly one entry appended; in every reachable state the first audit
\* entry of every appointment has type 'created'.
C3_AuditAppendOnly ==
    /\ (Succeeded /\ last.op \in Mutations) =>
          /\ Has(Current, last.id)
          /\ Len(Appt(Current, last.id).audit) = Len(Appt(last.pre, last.id).audit) + 1
          /\ IsPrefix(Appt(last.pre, last.id).audit, Appt(Current, last.id).audit)
    /\ storage # <<>> =>
          \A i \in 1..Len(Current.appointments) :
              /\ Len(Current.appointments[i].audit) >= 1
              /\ Current.appointments[i].audit[1].type = "created"

C3_Witness ==
    /\ Succeeded
    /\ last.op = "cancel"
    /\ Len(Appt(last.pre, last.id).audit) >= 2

\* C4  Failure atomicity: when a command fails, the persisted store state
\* after it (every record with its fields and audit trail, the version,
\* updatedAt) is identical to the state the command loaded.
C4_FailureAtomic ==
    Failed => /\ Current = last.pre
              /\ storage = << JSONstringify(last.pre) >>

C4_Witness ==
    /\ last.op = "reschedule"
    /\ last.err = ErrOverlap
    /\ last.pre.version > 1

\* C5  Ownership enforced: a reschedule, reassign, status update or cancel by
\* a session other than the target's createdBy fails with the ownership
\* error and changes neither the appointments nor the version.
C5_OwnershipEnforced ==
    (OnExisting /\ Appt(last.pre, last.id).createdBy # last.by) =>
        /\ last.err = ErrLocked
        /\ Current.appointments = last.pre.appointments
        /\ Current.version = last.pre.version

C5_Witness ==
    /\ last.op = "cancel"
    /\ Has(last.pre, last.id)
    /\ Appt(last.pre, last.id).createdBy \in Sessions \ {last.by}
    /\ last.err = ErrLocked

----------------------------------------------------------------------------
(* C6 - C8 *)

\* C6  Illegal transitions are rejected: updateAppointmentStatus(id, s) by the
\* owner of a non-cancelled appointment with status c fails, and leaves the
\* status, audit trail and version unchanged, whenever s is not in
\* nextAllowedStatuses[c].
C6_IllegalTransitionRejected ==
    ( /\ last.op = "status"
      /\ Has(last.pre, last.id)
      /\ Appt(last.pre, last.id).createdBy = last.by
      /\ ~Truthy(Appt(last.pre, last.id).cancelledAt)
      /\ last.status \notin nextAllowedStatuses[Appt(last.pre, last.id).status] ) =>
        /\ last.err # NoError
        /\ Appt(Current, last.id).status = Appt(last.pre, last.id).status
        /\ Appt(Current, last.id).audit = Appt(last.pre, last.id).audit
        /\ Current.version = last.pre.version

\* C7  Transition closure: once an appointment's status is 'completed' or
\* 'incomplete', no step changes it.
C7_TerminalStatusStays ==
    [][ storage # <<>> =>
          \A i \in 1..Len(Current.appointments) :
              Current.appointments[i].status \in {"completed", "incomplete"} =>
                  Current'.appointments[i].status = Current.appointments[i].status ]_vars

CancelledEntries(appt) ==
    { k \in 1..Len(appt.audit) : appt.audit[k].type = "cancelled" }

\* C8  Cancellation is terminal: a cancel, reschedule, reassign or status
\* update by the owner of an appointment that has cancelledAt set fails with
\* the already-cancelled error and leaves the record unchanged; every audit
\* trail holds at most one entry of type 'cancelled'.
C8_CancellationTerminal ==
    /\ ( /\ OnExisting
         /\ Appt(last.pre, last.id).createdBy = last.by
         /\ Truthy(Appt(last.pre, last.id).cancelledAt) ) =>
            /\ last.err = ErrCancelled
            /\ Has(Current, last.id)
            /\ Appt(Current, last.id) = Appt(last.pre, last.id)
    /\ storage # <<>> =>
          \A i \in 1..Len(Current.appointments) :
              Cardinality(CancelledEntries(Current.appointments[i])) <= 1

C8_Witness ==
    /\ last.op = "cancel"
    /\ Has(last.pre, last.id)
    /\ Appt(last.pre, last.id).createdBy = last.by
    /\ Truthy(Appt(last.pre, last.id).cancelledAt)
    /\ last.err = ErrCancelled

----------------------------------------------------------------------------
(* C9 - C10 *)

\* the candidate record of a create, reschedule or reassign: its id, its
\* (new) therapist and its (new) interval
CandidateTherapist ==
    IF last.op = "reschedule" THEN Appt(last.pre, last.id).therapistId ELSE last.therapistId
CandidateWindow ==
    IF last.op = "reassign"
    THEN [start |-> Appt(last.pre, last.id).start, end |-> Appt(last.pre, last.id).end]
    ELSE [start |-> last.start, end |-> last.end]

\* the other non-cancelled appointments of the candidate's therapist that
\* its interval overlaps, whoever owns them
Obstacles ==
    { i \in 1..Len(last.pre.appointments) :
        /\ last.pre.appointments[i].id # last.id
        /\ ~Truthy(last.pre.appointments[i].cancelledAt)
        /\ last.pre.appointments[i].therapistId = CandidateTherapist
        /\ Intersect(CandidateWindow, last.pre.appointments[i]) }

\* the command gets as far as building its candidate
BuildsCandidate ==
    \/ last.op = "create"
    \/ /\ last.op \in {"reschedule", "reassign"}
       /\ Has(last.pre, last.id)
       /\ Appt(last.pre, last.id).createdBy = last.by
       /\ ~Truthy(Appt(last.pre, last.id).cancelledAt)

\* C9  Overlap rejected at commit: a create, reschedule or reassign whose
\* candidate overlaps another non-cancelled appointment of the candidate's
\* therapist fails with the overlap error and leaves the store state and
\* version unchanged, whichever session owns that other appointment.
C9_OverlapRejected ==
    (BuildsCandidate /\ Obstacles # {}) =>
        /\ last.err = ErrOverlap
        /\ Current = last.pre

C9_Witness ==
    /\ last.op = "reassign"
    /\ BuildsCandidate
    /\ \E i \in Obstacles : last.pre.appointments[i].createdBy \in Sessions \ {last.by}
    /\ last.err = ErrOverlap

\* the validator's case of scenario A: the session evaluates a window on t1
\* inside working hours that overlaps a non-cancelled appointment of t1, in
\* the same appointment set, created by another session
ScenarioA ==
    /\ last.op = "preflight"
    /\ last.therapistId = "t1"
    /\ withinTherapistWorkingHours(therapists[1], parseISO(last.start), parseISO(last.end))
    /\ \E i \in 1..Len(last.snapshot.appointments) :
          LET a == last.snapshot.appointments[i] IN
          /\ a.createdBy \in Sessions \ {last.by}
          /\ ~Truthy(a.cancelledAt)
          /\ a.therapistId = "t1"
          /\ Intersect([start |-> last.start, end |-> last.end], a)

\* C10 (as claimed)  In scenario A the validator, given the locks derived for
\* the session, returns a failure whose reason is 'Overlapping appointment'.
C10_ValidatorReasonIsOverlap ==
    ScenarioA => last.err = ReasonOverlap

\* C10 (amended)  In scenario A the validator, given the locks derived for
\* the session, returns the failure 'Slot locked by another user'; given an
\* empty lock list, as handleCreate gives it, it returns the failure
\* 'Overlapping appointment'.
C10_ValidatorReasonIsLock ==
    ScenarioA =>
        /\ last.err = ReasonLocked
        /\ canScheduleWindow(last.therapistId, parseISO(last.start), parseISO(last.end),
                             last.snapshot.appointments, <<>>, availabilityContext, "")
             = Fail(ReasonOverlap)

C10_Witness ==
    /\ ScenarioA
    /\ last.by = "client_B"
    /\ last.err = ReasonLocked

----------------------------------------------------------------------------
(* C11 - C12: two sessions racing (SpecRace) *)

\* the commit saved over a state newer than the one it had loaded: another
\* session's commit fell between its load and its save
Stale == last.op \in Commands /\ last.result.version > last.pre.version

\* C11  Race backstop: when the loads and saves of two sessions' commits
\* interleave, no reachable store state holds two overlapping non-cancelled
\* appointments of one resource of which one was written by a session (the
\* only overlapping pair is the seeded one).
C11_RaceBackstop ==
    storage # <<>> =>
        \A p \in DoubleBooked(Current.appointments) :
            /\ Current.appointments[p[1]].createdBy = seededBy
            /\ Current.appointments[p[2]].createdBy = seededBy

\* both racers committed overlapping windows on t1 and both succeeded
C11_Witness ==
    /\ Stale
    /\ last.op = "create"
    /\ last.err = NoError
    /\ \E i \in 1..Len(last.result.appointments) :
          LET a == last.result.appointments[i] IN
          /\ a.createdBy \in Sessions \ {last.by}
          /\ ~Truthy(a.cancelledAt)
          /\ a.therapistId = last.therapistId
          /\ ~Has(last.pre, a.id)
          /\ Intersect(a, [start |-> last.start, end |-> last.end])

\* the stored list is the loaded list with the command's one change
SavedFromLoaded ==
    /\ Len(Current.appointments) =
          Len(last.pre.appointments) + (IF last.op = "create" THEN 1 ELSE 0)
    /\ Has(Current, last.id)
    /\ \A i \in 1..Len(last.pre.appointments) :
          last.pre.appointments[i].id # last.id =>
              Current.appointments[i] = last.pre.appointments[i]

\* C12  Lost-update window: a commit that loaded a state and saves after
\* another session's commit has replaced it still succeeds; the store then
\* holds the state it had loaded with its own change and version loaded + 1,
\* so the other commit's change is gone.
C12_StaleCommitOverwrites ==
    (Stale /\ last.err = NoError) =>
        /\ Current.version = last.pre.version + 1
        /\ Current.version <= last.result.version
        /\ SavedFromLoaded

\* both loaded the same state, both succeeded, and the appointment the first
\* saver created is absent from the store
C12_Witness ==
    /\ Stale
    /\ last.op = "reschedule"
    /\ last.err = NoError
    /\ last.result.version = last.pre.version + 1
    /\ \E i \in 1..Len(last.result.appointments) :
          LET a == last.result.appointments[i] IN
          /\ a.createdBy \in Sessions \ {last.by}
          /\ ~Has(last.pre, a.id)
          /\ ~Has(Current, a.id)

----------------------------------------------------------------------------
(* C13 - C14: locks *)

LockedBy(locks, s) == { k \in 1..Len(locks) : locks[k].lockedBy = s }

\* C13  Lock self-exclusion: for every session S, neither getLocksForRange
\* nor buildLocks, applied to the stored appointments for S, yields a lock
\* with lockedBy = S, and no snapshot fetchSnapshot returns to S holds one.
C13_LockSelfExclusion ==
    /\ storage # <<>> =>
          \A s \in Sessions :
              /\ LockedBy(getLocksForRange(Current.appointments, s), s) = {}
              /\ LockedBy(buildLocks(Current.appointments, s), s) = {}
    /\ last.op = "fetch" => LockedBy(last.snapshot.locks, last.by) = {}

\* a fetch by a session that owns a non-cancelled appointment of the
\* snapshot, which also holds one of the other session
C13_Witness ==
    /\ last.op = "fetch"
    /\ \E i \in 1..Len(last.snapshot.appointments) :
          /\ last.snapshot.appointments[i].createdBy = last.by
          /\ ~Truthy(last.snapshot.appointments[i].cancelledAt)
    /\ LockedBy(last.snapshot.locks, CHOOSE o \in Sessions : o # last.by) # {}

\* the appointments of the snapshot that are to be locked for the session
Lockable ==
    { i \in 1..Len(last.snapshot.appointments) :
        /\ ~Truthy(last.snapshot.appointments[i].cancelledAt)
        /\ last.snapshot.appointments[i].createdBy # last.by }

LockOf(a) ==
    [id |-> "lock_" \o a.id, therapistId |-> a.therapistId, start |-> a.start,
     end |-> a.end, lockedBy |-> a.createdBy, reason |-> "booked"]

\* C14  Lock derivation is exact: the locks of a snapshot returned by
\* fetchSnapshot correspond one to one to the snapshot's non-cancelled
\* appointments created by another session, each lock carrying that
\* appointment's therapistId, start and end, its createdBy as lockedBy and
\* reason 'booked'.
C14_LockDerivationExact ==
    last.op = "fetch" =>
        /\ Len(last.snapshot.locks) = Cardinality(Lockable)
        /\ \A i \in Lockable :
              Cardinality({ k \in 1..Len(last.snapshot.locks) :
                  last.snapshot.locks[k] = LockOf(last.snapshot.appointments[i]) }) = 1
        /\ \A k \in 1..Len(last.snapshot.locks) :
              \E i \in Lockable :
                  last.snapshot.locks[k] = LockOf(last.snapshot.appointments[i])

\* the snapshot holds a cancelled appointment of the other session, an
\* appointment of the fetching session, and locks
C14_Witness ==
    /\ last.op = "fetch"
    /\ \E i \in 1..Len(last.snapshot.appointments) :
          /\ last.snapshot.appointments[i].createdBy \in Sessions \ {last.by}
          /\ Truthy(last.snapshot.appointments[i].cancelledAt)
    /\ \E i \in 1..Len(last.snapshot.appointments) :
          last.snapshot.appointments[i].createdBy = last.by
    /\ Lockable # {}

----------------------------------------------------------------------------
(* C15: canScheduleWindow's order of checks (SpecRules) *)

\* the five checks in the claimed order, each TRUE when it fails; a check
\* on the therapist's hours is moot when no therapist has the id
FailingChecks ==
    LET start == parseISO(last.start)
        end == parseISO(last.end)
        known == { i \in 1..Len(therapists) : therapists[i].id = last.therapistId }
    IN << known = {},
          known # {} /\ ~withinTherapistWorkingHours(
                            therapists[CHOOSE i \in known : TRUE], start, end),
          hasTimeAwayConflict(last.therapistId, start, end, timeAway),
          slotOverlapsLocks(last.therapistId, start, end, last.snapshot.locks),
          hasAppointmentOverlap(last.snapshot.appointments, last.therapistId, start, end,
                                last.id) >>

CheckReasons ==
    << ReasonNoTherapist, ReasonOutsideHours, ReasonTimeOff, ReasonLocked, ReasonOverlap >>

FirstFailing ==
    LET failing == { k \in 1..5 : FailingChecks[k] }
    IN IF failing = {} THEN 0 ELSE CHOOSE k \in failing : \A j \in failing : k <= j

\* C15  Window eligibility priority: canScheduleWindow returns ok exactly
\* when none of the five checks fails, and otherwise the failure whose reason
\* is that of the first failing check in the order: therapist not found,
\* outside working hours, time off, locked, overlapping appointment.
C15_EligibilityPriority ==
    last.op = "validate" =>
        last.result = IF FirstFailing = 0 THEN Ok ELSE Fail(CheckReasons[FirstFailing])

\* a window inside the time away that also overlaps a lock and an
\* appointment of the therapist: the reason is 'Time off'
C15_Witness ==
    /\ last.op = "validate"
    /\ FailingChecks[3] /\ FailingChecks[4] /\ FailingChecks[5]
    /\ last.result = Fail(ReasonTimeOff)

----------------------------------------------------------------------------
(* C16: detectConflicts (SpecDetect) *)

\* the ids of the non-cancelled appointments that overlap another
\* non-cancelled appointment of the same therapist
Overlapping(appts) ==
    { appts[i].id : i \in { k \in 1..Len(appts) :
        \E j \in 1..Len(appts) :
            /\ j # k
            /\ ~Truthy(appts[k].cancelledAt)
            /\ ~Truthy(appts[j].cancelledAt)
            /\ appts[k].therapistId = appts[j].therapistId
            /\ Intersect(appts[k], appts[j]) } }

\* C16  Conflict detector completeness: detectConflicts returns exactly the
\* ids of the non-cancelled appointments that overlap at least one other
\* non-cancelled appointment with the same therapistId.
C16_DetectorComplete ==
    last.op = "detect" => last.result = Overlapping(last.snapshot.appointments)

----------------------------------------------------------------------------
(* C17: detectConflicts on the lists the store holds (SpecRules) *)

\* C17  Adjacent-pair sufficiency: on every appointment list the store can
\* hold, detectConflicts returns the empty set if and only if no two
\* non-cancelled appointments with the same therapistId overlap.
C17_EmptyIffNoOverlap ==
    (last.op = "detect" /\ last.by \in Sessions) =>
        (last.result = {} <=> Overlapping(last.snapshot.appointments) = {})

----------------------------------------------------------------------------
(* C18 - C19 *)

\* the other non-cancelled appointments of the candidate's therapist that
\* end where the candidate starts, or start where it ends
TouchingBefore ==
    { i \in 1..Len(last.pre.appointments) :
        /\ last.pre.appointments[i].id # last.id
        /\ ~Truthy(last.pre.appointments[i].cancelledAt)
        /\ last.pre.appointments[i].therapistId = CandidateTherapist
        /\ parseISO(last.pre.appointments[i].end) = parseISO(CandidateWindow.start) }

TouchingAfter ==
    { i \in 1..Len(last.pre.appointments) :
        /\ last.pre.appointments[i].id # last.id
        /\ ~Truthy(last.pre.appointments[i].cancelledAt)
        /\ last.pre.appointments[i].therapistId = CandidateTherapist
        /\ parseISO(last.pre.appointments[i].start) = parseISO(CandidateWindow.end) }

Instants == 0..3

\* C18  Touching boundary is not overlap: overlaps(sA, eA, sB, eB) is true
\* exactly when sA < eB and eA > sB, so intervals with eA = sB do not overlap;
\* a create or reschedule into a window that touches another non-cancelled
\* appointment of the same therapist and overlaps none succeeds and stores
\* the window.
C18_TouchingIsNotOverlap ==
    /\ \A sA \in Instants, eA \in Instants, sB \in Instants, eB \in Instants :
          /\ overlaps(sA, eA, sB, eB) <=> (sA < eB /\ eA > sB)
          /\ eA = sB => ~overlaps(sA, eA, sB, eB)
    /\ ( /\ last.op \in {"create", "reschedule"}
         /\ BuildsCandidate
         /\ TouchingBefore \cup TouchingAfter # {}
         /\ Obstacles = {} ) =>
            /\ last.err = NoError
            /\ Has(Current, last.id)
            /\ Appt(Current, last.id).start = last.start
            /\ Appt(Current, last.id).end = last.end

\* a reschedule into a window that starts where another appointment ends
C18_Witness ==
    /\ last.op = "reschedule"
    /\ BuildsCandidate
    /\ TouchingBefore # {}
    /\ Appt(last.pre, last.id).start # last.start
    /\ last.err = NoError

\* C19  Legal reschedule: the owner's reschedule of its non-cancelled
\* appointment to a window that overlaps no other non-cancelled appointment
\* of the therapist succeeds; the record then has the new start and end, the
\* same therapistId, status, createdBy and cancelledAt, and one more audit
\* entry, of type 'rescheduled', from the previous start/end to the new.
C19_LegalReschedule ==
    (last.op = "reschedule" /\ BuildsCandidate /\ Obstacles = {}) =>
        /\ last.err = NoError
        /\ Has(Current, last.id)
        /\ LET old == Appt(last.pre, last.id)
               new == Appt(Current, last.id)
               entry == new.audit[Len(new.audit)]
           IN /\ new.start = last.start
              /\ new.end = last.end
              /\ new.therapistId = old.therapistId
              /\ new.status = old.status
              /\ new.createdBy = old.createdBy
              /\ new.cancelledAt = old.cancelledAt
              /\ Len(new.audit) = Len(old.audit) + 1
              /\ IsPrefix(old.audit, new.audit)
              /\ entry.type = "rescheduled"
              /\ entry.by = last.by
              /\ entry.from.start = old.start /\ entry.from.end = old.end
              /\ entry.to.start = last.start /\ entry.to.end = last.end

\* a completed appointment moved to another window
C19_Witness ==
    /\ last.op = "reschedule"
    /\ BuildsCandidate
    /\ last.err = NoError
    /\ Appt(last.pre, last.id).status = "completed"
    /\ Appt(last.pre, last.id).start # last.start

----------------------------------------------------------------------------
(* C20 (SpecRules) *)

TherapistIds == { therapists[i].id : i \in 1..Len(therapists) }

\* C20  createAppointment with a therapistId that no therapist has fails and
\* leaves the stored appointments and the version unchanged.
C20_UnknownResourceRejected ==
    (last.op = "create" /\ last.therapistId \notin TherapistIds) =>
        /\ last.err # NoError
        /\ Current.appointments = last.pre.appointments
        /\ Current.version = last.pre.version

----------------------------------------------------------------------------
(* C21 - creation shape.  After a successful createAppointment the list is
   the list loaded plus exactly one record at its end; that record has the
   requested resource and interval, status 'scheduled', createdBy equal to
   the acting session, no cancelledAt, and an audit trail of exactly one
   'created' entry whose 'to' holds the requested start, the requested end
   and status 'scheduled'. *)
C21_CreationShape ==
    (last.op = "create" /\ Succeeded) =>
        LET old == last.pre.appointments
            new == Current.appointments
            appt == new[Len(new)]
        IN /\ Len(new) = Len(old) + 1
           /\ SubSeq(new, 1, Len(old)) = old
           /\ appt.id = last.id
           /\ appt.therapistId = last.therapistId
           /\ appt.start = last.start /\ appt.end = last.end
           /\ appt.status = "scheduled"
           /\ appt.createdBy = last.by
           /\ ~Truthy(appt.cancelledAt)
           /\ Len(appt.audit) = 1
           /\ appt.audit[1].type = "created"
           /\ appt.audit[1].by = last.by
           /\ appt.audit[1].to = [start |-> last.start, end |-> last.end,
                                  status |-> "scheduled"]

\* a second appointment has been created, by the session that did not create the first
C21_Witness ==
    /\ last.op = "create" /\ Succeeded
    /\ NumCreated(Current) = 2
    /\ Current.appointments[Len(Current.appointments) - 1].createdBy # last.by

----------------------------------------------------------------------------
(* C22 - reads are free of side effects.  A fetchSnapshot step leaves
   localStorage exactly as it found it, the first read of empty storage
   included: the version, updatedAt and appointment list persisted after
   the read are those persisted before it. *)
C22_ReadsLeaveStorage ==
    [][last'.op = "fetch" => storage' = storage]_vars

----------------------------------------------------------------------------
(* C23 - the snapshot version detects change.  Take two fetchSnapshot
   calls of the polling hook, in the order they were issued.  If a command
   committed between them (the store's clock, which ticks with every
   commit, is later in the second snapshot), then the version of the second
   snapshot is strictly greater than the version of the first, for every
   interleaving of the sessions' loads and saves. *)

\* the snapshots the hook holds, oldest fetch first: the one it applied,
\* then those of the fetches it is awaiting
Fetched ==
    (IF polling.snapshot = NoSnapshot THEN <<>> ELSE << polling.snapshot >>)
    \o [i \in 1..Len(SelectSeq(polling.pending, LAMBDA p : p.ok)) |->
            SelectSeq(polling.pending, LAMBDA p : p.ok)[i].value]

CommittedBetween(first, second) == parseISO(first.serverTime) < parseISO(second.serverTime)

C23_VersionDetectsChange ==
    \A i, j \in 1..Len(Fetched) :
        (i < j /\ CommittedBetween(Fetched[i], Fetched[j])) =>
            Fetched[j].version > Fetched[i].version

----------------------------------------------------------------------------
(* C24 - a refresh that settles after teardown is dropped.  Once the
   component is unmounted, the hook's snapshot, error and loading state do
   not change whatever the awaited fetches resolve or reject with, and no
   further fetch is issued. *)
C24_DroppedAfterUnmount ==
    [][~polling.mounted =>
          /\ polling'.snapshot = polling.snapshot
          /\ polling'.error = polling.error
          /\ polling'.loading = polling.loading
          /\ polling'.ticks = polling.ticks
          /\ ~polling'.mounted]_vars

\* both a resolved and a rejected fetch were awaited at the unmount and
\* have settled since; nothing was ever applied
C24_Witness ==
    /\ ~polling.mounted
    /\ polling.ticks = 2
    /\ polling.pending = <<>>
    /\ polling.loading
    /\ storage # <<>>

----------------------------------------------------------------------------
(* C25 - status updates and cancellation perform no overlap check and
   cannot introduce an overlap.  An updateAppointmentStatus or
   cancelAppointment by the owner of a non-cancelled appointment succeeds,
   also when the appointment overlaps another non-cancelled appointment of
   its therapist; and after a successful one the pairs of overlapping
   non-cancelled appointments of one therapist are among the pairs the
   loaded list had. *)

\* the call's target, in the list the call loaded, overlaps another booking
TargetOverlaps ==
    /\ Has(last.pre, last.id)
    /\ last.id \in Overlapping(last.pre.appointments)

C25_NoCheckNoNewOverlap ==
    (last.op \in {"status", "cancel"} /\ Has(last.pre, last.id)) =>
        /\ (Appt(last.pre, last.id).createdBy = last.by
              /\ ~Truthy(Appt(last.pre, last.id).cancelledAt)) => Succeeded
        /\ Succeeded =>
              DoubleBooked(Current.appointments) \subseteq DoubleBooked(last.pre.appointments)

\* a booking that overlaps another one had its status updated, then was
\* cancelled, which took its pair away
C25_Witness ==
    /\ last.op = "cancel" /\ Succeeded
    /\ TargetOverlaps
    /\ \E k \in 1..Len(Appt(last.pre, last.id).audit) :
          Appt(last.pre, last.id).audit[k].type = "status-change"
    /\ DoubleBooked(Current.appointments) # DoubleBooked(last.pre.appointments)

----------------------------------------------------------------------------
(* C26 - reassign.  reassignAppointment(id, r) by the owner of a
   non-cancelled appointment succeeds exactly when no other non-cancelled
   appointment with therapistId r overlaps the appointment's interval.  On
   success the record differs from the loaded one in therapistId (now r),
   updatedAt and audit only, and the audit is the loaded trail plus one
   'rescheduled' entry whose note names the old and the new resource and
   which has no from and no to. *)

\* another non-cancelled appointment of the resource overlaps the interval
Occupied(state, therapistId, start, end, exceptId) ==
    \E i \in 1..Len(state.appointments) :
        LET a == state.appointments[i] IN
        /\ a.id # exceptId
        /\ ~Truthy(a.cancelledAt)
        /\ a.therapistId = therapistId
        /\ parseISO(start) < parseISO(a.end)
        /\ parseISO(a.start) < parseISO(end)

\* the call is made by the owner of a non-cancelled appointment
ByOwnerOfLive ==
    /\ OnExisting
    /\ Appt(last.pre, last.id).createdBy = last.by
    /\ ~Truthy(Appt(last.pre, last.id).cancelledAt)

C26_Reassign ==
    (last.op = "reassign" /\ ByOwnerOfLive) =>
        LET old == Appt(last.pre, last.id)
            new == Appt(Current, last.id)
        IN /\ Succeeded <=>
                ~Occupied(last.pre, last.therapistId, old.start, old.end, last.id)
           /\ Succeeded =>
                /\ new = [old EXCEPT !.therapistId = last.therapistId,
                                     !.updatedAt = new.updatedAt,
                                     !.audit = new.audit]
                /\ Len(new.audit) = Len(old.audit) + 1
                /\ IsPrefix(old.audit, new.audit)
                /\ new.audit[Len(new.audit)].type = "rescheduled"
                /\ new.audit[Len(new.audit)].by = last.by
                /\ new.audit[Len(new.audit)].note =
                       "reassigned:" \o old.therapistId \o "->" \o last.therapistId
                /\ new.audit[Len(new.audit)].from = NoDelta
                /\ new.audit[Len(new.audit)].to = NoDelta

\* a completed appointment moved to another resource on which a booking
\* exists outside its interval
C26_Witness ==
    /\ last.op = "reassign" /\ Succeeded
    /\ Appt(last.pre, last.id).therapistId # last.therapistId
    /\ Appt(last.pre, last.id).status = "completed"
    /\ \E i \in 1..Len(last.pre.appointments) :
          /\ last.pre.appointments[i].therapistId = last.therapistId
          /\ ~Truthy(last.pre.appointments[i].cancelledAt)

----------------------------------------------------------------------------
(* C27 - cancelled appointments free their slot.  A successful
   cancelAppointment changes only cancelledAt, cancelledBy, updatedAt and
   audit of its target.  A create, reschedule or reassign whose candidate
   overlaps no non-cancelled appointment of its resource succeeds, whatever
   cancelled appointments lie in its window.  The validator, on a window
   that overlaps cancelled appointments only, reports neither a lock nor an
   overlapping appointment, and no lock derived for a snapshot belongs to a
   cancelled appointment. *)

\* the cancelled appointments of the candidate's resource in its window
Freed ==
    { i \in 1..Len(last.pre.appointments) :
        /\ last.pre.appointments[i].id # last.id
        /\ Truthy(last.pre.appointments[i].cancelledAt)
        /\ last.pre.appointments[i].therapistId = CandidateTherapist
        /\ Intersect(CandidateWindow, last.pre.appointments[i]) }

\* the snapshot's non-cancelled appointments of the validated resource that
\* the validated window overlaps
Busy ==
    { i \in 1..Len(last.snapshot.appointments) :
        /\ ~Truthy(last.snapshot.appointments[i].cancelledAt)
        /\ last.snapshot.appointments[i].therapistId = last.therapistId
        /\ Intersect(last, last.snapshot.appointments[i]) }

C27_CancelledFreesSlot ==
    /\ (last.op = "cancel" /\ Succeeded) =>
          LET old == Appt(last.pre, last.id)
              new == Appt(Current, last.id)
          IN /\ Truthy(new.cancelledAt)
             /\ new.cancelledBy = last.by
             /\ new = [old EXCEPT !.cancelledAt = new.cancelledAt,
                                  !.cancelledBy = new.cancelledBy,
                                  !.updatedAt = new.updatedAt,
                                  !.audit = new.audit]
    /\ (BuildsCandidate /\ Obstacles = {}) => Succeeded
    /\ last.op = "preflight" =>
          /\ hasAppointmentOverlap(last.snapshot.appointments, last.therapistId,
                                   parseISO(last.start), parseISO(last.end), "")
                <=> Busy # {}
          /\ Busy = {} => last.err \notin {ReasonLocked, ReasonOverlap}
          /\ \A a \in SeqToSet(last.snapshot.appointments) :
                Truthy(a.cancelledAt) =>
                    /\ LockOf(a) \notin SeqToSet(last.snapshot.locks)
                    /\ LockOf(a) \notin
                          SeqToSet(getLocksForRange(last.snapshot.appointments, last.by))

\* a session books the window another session's cancelled appointment holds
C27_Witness ==
    /\ BuildsCandidate /\ Succeeded
    /\ \E i \in Freed : last.pre.appointments[i].createdBy # last.by

----------------------------------------------------------------------------
(* C28 - slot resolution priority.  resolveSlot answers 'off' when the
   date's weekday is not a working day of the resource or the window is not
   inside its working hours; otherwise 'time-off' when the window overlaps
   a time away of the resource on that date; otherwise 'booked' when it
   overlaps a non-cancelled appointment of the resource; otherwise
   'available'. *)

SlotDay == last.range.start
SlotStart == minutesSinceMidnight(parseISO(last.start))
SlotEnd == minutesSinceMidnight(parseISO(last.end))
SlotTherapist == therapists[CHOOSE i \in 1..Len(therapists) : therapists[i].id = last.therapistId]

SlotIsOff ==
    \/ SlotDay % 7 \notin SlotTherapist.workingHours.days
    \/ SlotStart < SlotTherapist.workingHours.start
    \/ SlotEnd > SlotTherapist.workingHours.end

SlotInTimeAway ==
    \E i \in 1..Len(timeAway) :
        /\ timeAway[i].therapistId = last.therapistId
        /\ timeAway[i].date = SlotDay
        /\ SlotStart < timeAway[i].end
        /\ timeAway[i].start < SlotEnd

SlotIsBooked ==
    \E i \in 1..Len(last.snapshot.appointments) :
        /\ ~Truthy(last.snapshot.appointments[i].cancelledAt)
        /\ last.snapshot.appointments[i].therapistId = last.therapistId
        /\ Intersect(last, last.snapshot.appointments[i])

C28_SlotPriority ==
    last.op = "slot" =>
        last.result.status =
            IF SlotIsOff THEN "off"
            ELSE IF SlotInTimeAway THEN "time-off"
            ELSE IF SlotIsBooked THEN "booked"
            ELSE "available"

\* a slot in working hours, in a time away and booked by a session, resolved
\* as time off
C28_Witness ==
    /\ last.op = "slot"
    /\ ~SlotIsOff /\ SlotInTimeAway /\ SlotIsBooked
    /\ last.result.status = "time-off"

----------------------------------------------------------------------------
(* C29 - error precedence.  A reschedule, reassign, status update or cancel
   fails with the first of these that applies and succeeds when none does:
   the appointment is not found; the caller is not its owner; it is already
   cancelled; (reschedule and reassign only) the candidate overlaps another
   non-cancelled appointment of its resource.  So a non-owner acting on a
   cancelled appointment gets the ownership error, and an owner moving a
   cancelled appointment into an occupied window gets the already-cancelled
   error. *)
C29_ErrorPrecedence ==
    last.op \in Mutations =>
        last.err =
            IF ~Has(last.pre, last.id) THEN ErrNotFound
            ELSE IF Appt(last.pre, last.id).createdBy # last.by THEN ErrLocked
            ELSE IF Truthy(Appt(last.pre, last.id).cancelledAt) THEN ErrCancelled
            ELSE IF last.op \in {"reschedule", "reassign"} /\ Obstacles # {} THEN ErrOverlap
            ELSE NoError

\* a session that does not own it moves a cancelled appointment into an
\* occupied window and is refused for the ownership
C29_Witness ==
    /\ last.op \in {"reschedule", "reassign"}
    /\ Has(last.pre, last.id)
    /\ Appt(last.pre, last.id).createdBy # last.by
    /\ Truthy(Appt(last.pre, last.id).cancelledAt)
    /\ Obstacles # {}
    /\ last.err = ErrLocked

----------------------------------------------------------------------------
(* C30 - frame of a commit, commands running one at a time.  A successful
   reschedule, reassign, status update or cancel of X leaves the list with
   the same ids at the same places and every record other than X identical;
   a successful create leaves every record it found identical; and no step
   makes the stored list shorter. *)

OthersUntouched ==
    /\ (Succeeded /\ last.op \in Mutations) =>
          /\ Len(Current.appointments) = Len(last.pre.appointments)
          /\ \A i \in 1..Len(last.pre.appointments) :
                /\ Current.appointments[i].id = last.pre.appointments[i].id
                /\ last.pre.appointments[i].id # last.id =>
                      Current.appointments[i] = last.pre.appointments[i]
    /\ (Succeeded /\ last.op = "create") =>
          /\ Len(Current.appointments) > Len(last.pre.appointments)
          /\ \A i \in 1..Len(last.pre.appointments) :
                Current.appointments[i] = last.pre.appointments[i]

NeverShorter ==
    storage # <<>> =>
        Len(storage'[1].value.appointments) >= Len(storage[1].value.appointments)

C30_CommitFrame == []OthersUntouched /\ [][NeverShorter]_vars

\* an appointment is changed while the list holds one each session created
C30_Witness ==
    /\ Succeeded /\ last.op \in Mutations
    /\ NumCreated(Current) = 2
    /\ \E i \in 1..Len(Current.appointments) :
          /\ Current.appointments[i].id # last.id
          /\ Current.appointments[i].createdBy \in Sessions
          /\ Current.appointments[i].createdBy # last.by

----------------------------------------------------------------------------
(* C31 - self-exclusion in the overlap re-check.  A reschedule by the
   owner of a non-cancelled appointment succeeds when the new window
   overlaps no other non-cancelled appointment of the resource, also when
   it overlaps the appointment's own current window.  canScheduleWindow
   called with ignoreAppointmentId = X answers 'Overlapping appointment'
   only when a non-cancelled appointment of the resource other than X
   overlaps the window. *)
C31_SelfExclusion ==
    /\ (last.op = "reschedule" /\ ByOwnerOfLive /\ Obstacles = {}) => Succeeded
    /\ (last.op = "validate" /\ last.id # "" /\ last.err = ReasonOverlap) =>
          \E i \in 1..Len(last.snapshot.appointments) :
              /\ last.snapshot.appointments[i].id # last.id
              /\ ~Truthy(last.snapshot.appointments[i].cancelledAt)
              /\ last.snapshot.appointments[i].therapistId = last.therapistId
              /\ Intersect(last, last.snapshot.appointments[i])

\* an appointment was moved by half an hour, into a window that overlaps
\* the one it held
C31_Witness ==
    /\ last.op = "reschedule" /\ Succeeded
    /\ Appt(last.pre, last.id).start # last.start
    /\ Intersect(last, Appt(last.pre, last.id))

----------------------------------------------------------------------------
(* C32 - the store version never decreases.  Of two snapshots fetched one
   after the other, whatever commands ran and whatever the reads found in
   localStorage in between (the item missing or unparsable included), the
   later one has a version at least the earlier one's and holds every
   appointment the earlier one held. *)
C32_VersionNeverDecreases ==
    \A i, j \in 1..Len(Fetched) :
        i < j =>
            /\ Fetched[j].version >= Fetched[i].version
            /\ \A a \in SeqToSet(Fetched[i].appointments) :
                  \E b \in SeqToSet(Fetched[j].appointments) : b.id = a.id

----------------------------------------------------------------------------
(* C33 - snapMinutes(m, slot, mode) for integers m >= 0 and slot > 0
   returns a multiple r of slot; r <= m < r + slot with 'floor',
   r - slot < m <= r with 'ceil', |r - m| <= slot / 2 with 'round' and an
   exact half goes up; a multiple of slot is returned unchanged, and
   snapping the result again returns it. *)
C33_SnapMinutes ==
    last.op = "snap" =>
        LET m == last.result.minutes
            slot == last.result.slot
            mode == last.result.mode
            r == last.result.snapped
        IN /\ r % slot = 0
           /\ mode = "floor" => (r <= m /\ m < r + slot)
           /\ mode = "ceil" => (r - slot < m /\ m <= r)
           /\ mode = "round" =>
                 /\ 2 * (r - m) <= slot
                 /\ 2 * (m - r) < slot
           /\ m % slot = 0 => r = m
           /\ snapMinutes(r, slot, mode) = r

\* a minute count exactly half a slot past a multiple, rounded up
C33_Witness ==
    /\ last.op = "snap"
    /\ last.result.mode = "round"
    /\ 2 * (last.result.minutes % last.result.slot) = last.result.slot
    /\ last.result.snapped > last.result.minutes

----------------------------------------------------------------------------
(* C34 - single-author trail.  In every store state every entry of every
   appointment's audit trail has 'by' equal to the appointment's createdBy,
   and no step changes the createdBy of an appointment the store keeps; so
   no two sessions both mutate one appointment. *)

TrailByCreator ==
    (storage # <<>> /\ storage[1].parses) =>
        \A a \in SeqToSet(Current.appointments) :
            \A k \in 1..Len(a.audit) : a.audit[k].by = a.createdBy

CreatorKept ==
    (storage # <<>> /\ storage[1].parses /\ storage'[1].parses) =>
        \A a \in SeqToSet(storage[1].value.appointments) :
            \A b \in SeqToSet(storage'[1].value.appointments) :
                b.id = a.id => b.createdBy = a.createdBy

C34_SingleAuthorTrail == []TrailByCreator /\ [][CreatorKept]_vars

\* an appointment of a session with a trail of three entries, the last one
\* its cancellation
C34_Witness ==
    /\ storage # <<>>
    /\ \E a \in SeqToSet(Current.appointments) :
          /\ a.createdBy \in Sessions
          /\ Len(a.audit) = 3
          /\ a.audit[2].type # "created"
          /\ a.audit[3].type = "cancelled"

----------------------------------------------------------------------------
(* C35 - seeded records are immutable.  Every seeded appointment is created
   by 'seed' and no session id is 'seed' (each is 'client_...'), so every
   reschedule, reassign, status update and cancel of a seeded appointment
   fails with the ownership error, and with commands run one at a time every
   store state holds each seeded appointment exactly as seeded. *)

SeedIds == { seedAppointments[i].id : i \in 1..Len(seedAppointments) }

C35_SeedsImmutable ==
    /\ \A i \in 1..Len(seedAppointments) :
          seedAppointments[i].createdBy = "seed"
    /\ \A s \in Sessions : \E x \in {"A", "B"} : s = "client_" \o x
    /\ (last.op \in Mutations /\ last.id \in SeedIds) => last.err = ErrLocked
    /\ (storage # <<>> /\ storage[1].parses) =>
          \A i \in 1..Len(seedAppointments) :
              /\ Has(Current, seedAppointments[i].id)
              /\ Appt(Current, seedAppointments[i].id) = seedAppointments[i]

\* a session's reschedule of a seeded appointment into a free window has
\* just been refused, after two commits by sessions
C35_Witness ==
    /\ last.op = "reschedule"
    /\ last.id \in SeedIds
    /\ last.by \in Sessions
    /\ last.err = ErrLocked
    /\ storage # <<>>
    /\ Current.version >= 3
    /\ ~Occupied(Current, Appt(Current, last.id).therapistId,
                 last.start, last.end, last.id)

----------------------------------------------------------------------------
(* C36 - validator acceptance implies commit acceptance on fresh data.  When
   canScheduleWindow answers ok on the store's current appointments with the
   locks derived for the session, the command the session issues right after
   (createAppointment for that resource and window, or rescheduleAppointment
   of the ignored appointment to that window) succeeds. *)

LocksDerived ==
    last.snapshot.locks = getLocksForRange(last.snapshot.appointments, last.by)

C36_ValidatorImpliesCommit ==
    (/\ last.op \in {"create", "reschedule"}
     /\ last.result # NoResult
     /\ last.result.ok
     /\ LocksDerived) => last.err = NoError

----------------------------------------------------------------------------
(* C37 - committed bookings respect availability.  In every store state every
   non-cancelled appointment that a session created, rescheduled or reassigned
   refers to a known therapist, lies on one of the therapist's working
   weekdays inside the working hours, and overlaps no time away of the
   therapist. *)

Available(a) ==
    LET known == { i \in 1..Len(therapists) : therapists[i].id = a.therapistId }
    IN /\ known # {}
       /\ \A i \in known :
             withinTherapistWorkingHours(therapists[i], parseISO(a.start), parseISO(a.end))
       /\ ~hasTimeAwayConflict(a.therapistId, parseISO(a.start), parseISO(a.end), timeAway)

C37_BookingsRespectAvailability ==
    (storage # <<>> /\ storage[1].parses) =>
        \A a \in SeqToSet(Current.appointments) :
            (a.createdBy \in Sessions /\ ~Truthy(a.cancelledAt)) => Available(a)

----------------------------------------------------------------------------
(* C38 - the version counts commits under interleaving.  In every store
   state, also when two sessions' commands both load before either saves, the
   store version is the seeded version plus the number of mutating commands
   that have returned success. *)

C38_VersionCountsCommits ==
    (storage # <<>> /\ storage[1].parses) => Current.version = 1 + Commits

----------------------------------------------------------------------------
(* C39 - no stale-range snapshot.  Once the hook holds the result of a fetch
   issued for the current range, no step that leaves the range unchanged makes
   it hold the result of a fetch issued for another range: the result of an
   earlier fetch for a previous range that settles later is not applied. *)

HoldsCurrentRange == polling.snapshot # NoSnapshot /\ polling.shown = polling.range

C39_NoStaleRange ==
    [][(/\ HoldsCurrentRange
        /\ polling.mounted
        /\ polling'.mounted
        /\ polling'.range = polling.range) => polling'.shown = polling'.range]_vars

----------------------------------------------------------------------------
(* C40 - refresh eventually shows commits.  With the hook mounted on an
   unchanged range, its fetches succeeding and the interval firing, every
   successful commit to an appointment that starts inside the range is
   eventually reflected in the hook's snapshot (the record as committed or
   newer, a lock for it when it is another session's booking that is not
   cancelled, a version at least the committed one) unless a later commit
   removes it from the store. *)

Watched == polling.watch # NoWatch

ReflectedAt(id, at, v) ==
    /\ polling.snapshot # NoSnapshot
    /\ Has(polling.snapshot, id)
    /\ parseISO(Appt(polling.snapshot, id).updatedAt) >= at
    /\ polling.snapshot.version >= v
    /\ (/\ Appt(polling.snapshot, id).createdBy # Viewer
        /\ ~Truthy(Appt(polling.snapshot, id).cancelledAt))
       => \E k \in 1..Len(polling.snapshot.locks) :
             polling.snapshot.locks[k] = LockOf(Appt(polling.snapshot, id))

RemovedAfter(id, at) ==
    /\ storage # <<>>
    /\ \/ ~Has(Current, id)
       \/ parseISO(Appt(Current, id).updatedAt) < at

C40_RefreshShowsCommits ==
    Watched ~> (\/ ReflectedAt(polling.watch.id, polling.watch.at, polling.watch.version)
                \/ RemovedAfter(polling.watch.id, polling.watch.at))

\* the hook shows the followed commit, the other session's booking, with its
\* lock and the store's version, while the store still holds it
C40_Witness ==
    /\ storage # <<>>
    /\ Watched
    /\ Has(Current, polling.watch.id)
    /\ Has(polling.snapshot, polling.watch.id)
    /\ Appt(polling.snapshot, polling.watch.id) = Appt(Current, polling.watch.id)
    /\ Appt(Current, polling.watch.id).createdBy # Viewer
    /\ ~Truthy(Appt(Current, polling.watch.id).cancelledAt)
    /\ polling.snapshot.version = Current.version
    /\ polling.snapshot.version >= polling.watch.version
    /\ \E k \in 1..Len(polling.snapshot.locks) :
          polling.snapshot.locks[k] = LockOf(Appt(Current, polling.watch.id))
====
